---- MODULE Spec2Model ----
(***************************************************************************)
(* A model of the hash table of src/src/hash_table.c: the table struct,    *)
(* the array of sentinel bucket heads, the heap of entry nodes linked by   *)
(* their next pointers, and the public operations as they are coded.       *)
(*                                                                         *)
(* Machine integers keep their width.  An unsigned long / size_t is a      *)
(* tuple of four 16-bit limbs, most significant first (TLC's own integers  *)
(* are 32 bits wide); an int is a TLC integer in -2^31 .. 2^31-1.          *)
(***************************************************************************)
EXTENDS Integers, Sequences, FiniteSets, TLC

\* ------------------------------------------------------------------ bounds
\* Number of entry nodes the heap holds before calloc reports out of memory.
MaxNodes == 2
\* Last key of the ascending insertion loop (for i = 0 .. MaxAscKey).
MaxAscKey == 17

\* The number of entries the clients of the bulk operations can allocate.
MaxBulkNodes == 3

\* --------------------------------------------------------- machine integers
Limb == 65536
HalfLimb == 32768

\* The null pointer.  Node pointers are 1, 2, ...; the sentinel head of
\* bucket b is the pointer -(b+1).
NULL == 0

\* size_t / unsigned long value of a natural number below 2^31.
U64FromNat(n) == <<0, 0, n \div Limb, n % Limb>>

\* (unsigned long) i for a 32-bit int i: sign extension, i.e. i modulo 2^64.
U64FromInt(i) ==
  IF i >= 0 THEN U64FromNat(i)
  ELSE LET j == (i + ((HalfLimb - 1) * Limb + (Limb - 1))) + 1   \* i + 2^31
       IN  <<Limb - 1, Limb - 1, (j \div Limb) + HalfLimb, j % Limb>>

\* (int) u for a size_t u: the low 32 bits, read as two's complement (the
\* conversion gcc implements for out-of-range values).
IntFromU64(u) ==
  IF u[3] < HalfLimb THEN u[3] * Limb + u[4]
  ELSE (u[3] - Limb) * Limb + u[4]

\* u is a value that fits a non-negative int.
U64IsNat(u) == u[1] = 0 /\ u[2] = 0 /\ u[3] < HalfLimb

U64ToNat(u) == u[3] * Limb + u[4]

\* a < b on unsigned long.
U64Less(a, b) ==
  \E i \in 1..4 : a[i] < b[i] /\ \A j \in 1..(i - 1) : a[j] = b[j]

\* a >= b on unsigned long.
U64Geq(a, b) == ~U64Less(a, b)

\* u % n on unsigned long, for a modulus 0 < n < 2^15 (every prime of the
\* library is): Horner's rule over the limbs.
U64Mod(u, n) ==
  LET r1 == u[1] % n
      r2 == (r1 * Limb + u[2]) % n
      r3 == (r2 * Limb + u[3]) % n
  IN  (r3 * Limb + u[4]) % n

\* ------------------------------------------------------------ prime library
PRIMES_SIZE == 11

primes == <<17, 31, 67, 127, 257, 509, 1021, 2053, 4099, 8191, 16381>>

\* The loop of is_number_in_prime_library: primes[i] == num compares a size_t
\* with an int, so num is converted to size_t first.
is_number_in_prime_library(num) ==
  \E i \in 1..PRIMES_SIZE : U64FromNat(primes[i]) = U64FromInt(num)

\* The index i (from 1) at which the loop of get_next_prime_number finds
\* primes[i] == current, or 0 when it finds none.
PrimeIndex(current) ==
  IF \E i \in 1..PRIMES_SIZE : U64FromNat(primes[i]) = U64FromInt(current)
  THEN CHOOSE i \in 1..PRIMES_SIZE : U64FromNat(primes[i]) = U64FromInt(current)
  ELSE 0

\* What get_next_prime_number returns when the loop stopped at index i.
NextPrimeAt(i) ==
  IF i = 0 THEN -1
  ELSE IF i < PRIMES_SIZE THEN primes[i + 1] ELSE -1

\* get_next_prime_number with the bound check left out: past the last prime
\* it wraps to the first one.
get_next_prime_number_wrap(current) ==
  IF PrimeIndex(current) = 0 THEN -1
  ELSE primes[(PrimeIndex(current) % PRIMES_SIZE) + 1]

\* The next prime of the library after current (an int), or -1.
get_next_prime_number(current) == NextPrimeAt(PrimeIndex(current))

\* ----------------------------------------------------- elements and hashing
\* An elem_t is a union read through one member.  Integer keys are ints
\* (key.i); string keys are pointers (key.p) into StrMem, the text the
\* pointer addresses.  Values are read as ints.
\* The keys share bucket 14 of a 17-bucket table ((2^64 - 4) % 17 = 14, and
\* 541 = 31 * 17 + 14); 14 and 541 share bucket 14 of a 31-bucket table too.
IntKeys == {-4, 14, 541}

\* Addresses of three string literals: "A", "Aa", "BB" (character codes).
StrMem == <<  <<65>>, <<65, 97>>, <<66, 66>>  >>

StrKeys == DOMAIN StrMem

Values == {1, 2}

\* Function pointers are named by the function's name; "NULL" is the null
\* function pointer.
HashFunctions == {"default_hash_function", "string_knr_hash"}

\* (unsigned long) key.i
default_hash_function(key) == U64FromInt(key)

\* result = result * 31 + *str over the characters of the string; for the
\* strings of StrMem the result stays far below 2^31, so unsigned long
\* arithmetic never wraps.
RECURSIVE knr_fold(_, _, _)
knr_fold(str, i, result) ==
  IF i > Len(str) THEN result
  ELSE knr_fold(str, i + 1, result * 31 + str[i])

string_knr_hash(key) == U64FromNat(knr_fold(StrMem[key], 1, 0))

\* ht->hash_function(key)
Hash(func, key) ==
  IF func = "string_knr_hash" THEN string_knr_hash(key)
  ELSE default_hash_function(key)

\* The keys a client of a table with this hash function passes.
KeysOf(func) == IF func = "string_knr_hash" THEN StrKeys ELSE IntKeys

\* ------------------------------------------------------- heap and pointers
\* A bucket array is the array of sentinel heads, kept as the map from the
\* indices of its non-empty buckets to the first node of their chain (every
\* other sentinel's next is NULL, as calloc and the initialising loop leave
\* it).  The heap is the map of the allocated entry nodes, id -> [key, value,
\* next].  A memory m = [bk, h] is a bucket array with the heap.
Mem(bk, h) == [bk |-> bk, h |-> h]

BucketHead(bk, b) == IF b \in DOMAIN bk THEN bk[b] ELSE NULL

\* &buckets[b]
Sentinel(b) == -(b + 1)

\* p->next
NextOf(m, p) == IF p < 0 THEN BucketHead(m.bk, -p - 1) ELSE m.h[p].next

\* buckets[b].next = q
SetHead(bk, b, q) ==
  IF q = NULL THEN [c \in DOMAIN bk \ {b} |-> bk[c]]
  ELSE [c \in DOMAIN bk \cup {b} |-> IF c = b THEN q ELSE bk[c]]

\* p->next = q
SetNext(m, p, q) ==
  IF p < 0 THEN Mem(SetHead(m.bk, -p - 1, q), m.h)
  ELSE Mem(m.bk, [m.h EXCEPT ![p].next = q])

\* The address calloc returns for a new entry: the lowest free node id.
FreeNode(h) ==
  CHOOSE n \in (1..(Cardinality(DOMAIN h) + 1)) \ DOMAIN h :
    \A k \in 1..(n - 1) : k \in DOMAIN h

\* entry_destroy without the call of free: the entry stays allocated.
entry_destroy_leak(h, entry) == h

\* free(entry)
entry_destroy(h, entry) == [n \in DOMAIN h \ {entry} |-> h[n]]

\* find_previous_entry_for_key that stops only at an entry whose hash is
\* strictly greater (> in place of >=).
RECURSIVE find_previous_entry_for_key_gt(_, _, _, _)
find_previous_entry_for_key_gt(func, m, first_entry, key) ==
  IF NextOf(m, first_entry) = NULL THEN first_entry
  ELSE IF U64Less(key, Hash(func, m.h[NextOf(m, first_entry)].key))
       THEN first_entry
       ELSE find_previous_entry_for_key_gt(func, m, NextOf(m, first_entry), key)

\* find_previous_entry_for_key that never walks: every new entry is linked
\* at the front of its chain.
find_previous_entry_for_key_front(func, m, first_entry, key) == first_entry

\* The loop of find_previous_entry_for_key with prev = first_entry and
\* cursor = prev->next: the entry after which the chain's hashes are >= key.
RECURSIVE find_previous_entry_for_key(_, _, _, _)
find_previous_entry_for_key(func, m, first_entry, key) ==
  IF NextOf(m, first_entry) = NULL THEN first_entry
  ELSE IF U64Geq(Hash(func, m.h[NextOf(m, first_entry)].key), key)
       THEN first_entry
       ELSE find_previous_entry_for_key(func, m, NextOf(m, first_entry), key)

\* The while loop of hash_table_lookup from cursor on.
RECURSIVE LookupLoop(_, _, _, _)
LookupLoop(func, h, cursor, hash_key) ==
  IF cursor = NULL THEN [found |-> FALSE, value |-> 0]
  ELSE IF Hash(func, h[cursor].key) = hash_key
       THEN [found |-> TRUE, value |-> h[cursor].value]
       ELSE LookupLoop(func, h, h[cursor].next, hash_key)

\* The bucket computed in signed int arithmetic, key.i % no_buckets: the
\* remainder of a negative key is negative.
BucketOf_signed(t, key) ==
  IF key >= 0 THEN key % U64ToNat(t.no_buckets)
  ELSE -((-key) % U64ToNat(t.no_buckets))

\* hash_key % ht->no_buckets, stored in an int
BucketOf(t, key) == U64Mod(Hash(t.hash_function, key), U64ToNat(t.no_buckets))

\* hash_table_lookup: found, and the value stored through result when found.
hash_table_lookup(t, h, key) ==
  LookupLoop(t.hash_function, h, BucketHead(t.buckets, BucketOf(t, key)),
             Hash(t.hash_function, key))

\* ------------------------------------------------------- resize and rehash
\* A load factor is the exact ratio <<numerator, denominator>> of a float.
\* The load factors of the model are dyadic (exact floats) and the quotients
\* size / no_buckets differ from them by far more than a float's rounding, so
\* (float) size / (float) no_buckets >= load_factor is the comparison of the
\* exact ratios.
\* The load computed without the float casts: size / no_buckets is then the
\* integer quotient.
LoadReached_intdiv(t) ==
  (t.size \div U64ToNat(t.no_buckets)) * t.load_factor[2] >= t.load_factor[1]

\* The load computed with the entry being inserted counted in.
LoadReached_counted(t) ==
  (t.size + 1) * t.load_factor[2] >= t.load_factor[1] * U64ToNat(t.no_buckets)

\* current_load >= ht->load_factor
LoadReached(t) ==
  t.size * t.load_factor[2] >= t.load_factor[1] * U64ToNat(t.no_buckets)

\* The lowest non-empty bucket index in i .. n-1, or n when there is none:
\* the loops over the bucket array do nothing at an empty bucket.
NextBucket(bk, i, n) ==
  IF \E b \in DOMAIN bk : b >= i /\ b < n
  THEN CHOOSE b \in DOMAIN bk :
         /\ b >= i /\ b < n
         /\ \A c \in DOMAIN bk : (c >= i /\ c < n) => b <= c
  ELSE n

\* The relinking of the rehash without cursor->next = entry->next: the entry
\* keeps the successor it had in its old chain.
Relink_keep_next(m, cursor, entry) == SetNext(m, entry, cursor)

\* cursor->next = entry->next; entry->next = cursor
Relink(m, cursor, entry) ==
  SetNext(SetNext(m, cursor, NextOf(m, entry)), entry, cursor)

\* A round of the rehash loop that copies: a new node is allocated with the
\* entry's key, value and next, linked into the new array in its place, and
\* the entry at cursor is freed.
RehashEntry_copy(func, no_buckets_new, m, cursor) ==
  LET n == FreeNode(m.h)
      copied == Mem(m.bk, [k \in DOMAIN m.h \cup {n} |->
                             IF k = n THEN m.h[cursor] ELSE m.h[k]])
      linked == Relink(copied, n,
                       find_previous_entry_for_key(
                         func, copied,
                         Sentinel(U64Mod(Hash(func, m.h[cursor].key), no_buckets_new)),
                         Hash(func, m.h[cursor].key)))
  IN Mem(linked.bk, entry_destroy(linked.h, cursor))

\* One round of the rehash loop: the entry at cursor is linked into the new
\* array m.bk after its predecessor by hash.
RehashEntry(func, no_buckets_new, m, cursor) ==
  Relink(m, cursor,
         find_previous_entry_for_key(
           func, m,
           Sentinel(U64Mod(Hash(func, m.h[cursor].key), no_buckets_new)),
           Hash(func, m.h[cursor].key)))

\* The while loop of the rehash over one old chain, from cursor on.
RECURSIVE RehashChain(_, _, _, _)
RehashChain(func, no_buckets_new, m, cursor) ==
  IF cursor = NULL THEN m
  ELSE RehashChain(func, no_buckets_new,
                   RehashEntry(func, no_buckets_new, m, cursor),
                   m.h[cursor].next)

\* The for loop of the rehash over the old buckets from b on, b being the
\* next non-empty one (no_buckets_old when there is none); m holds the new array.
RECURSIVE RehashFrom(_, _, _, _, _, _)
RehashFrom(func, buckets_old, no_buckets_old, no_buckets_new, m, b) ==
  IF b >= no_buckets_old THEN m
  ELSE RehashFrom(
         func, buckets_old, no_buckets_old, no_buckets_new,
         RehashChain(func, no_buckets_new, m, BucketHead(buckets_old, b)),
         NextBucket(buckets_old, b + 1, no_buckets_old))

\* The for loop of the rehash over the old buckets 0 .. no_buckets_old-1.
RehashBuckets(func, buckets_old, no_buckets_old, no_buckets_new, m) ==
  RehashFrom(func, buckets_old, no_buckets_old, no_buckets_new, m,
             NextBucket(buckets_old, 0, no_buckets_old))

\* The outcome of hash_table_resize.  callocs / failed count the calloc calls
\* made and those that returned NULL; frees counts the bucket arrays freed.
ResizeOutcome(t, h, reached, resized, callocs, failed, frees) ==
  [t |-> t, h |-> h, reached |-> reached, resized |-> resized,
   callocs |-> callocs, failed |-> failed, frees |-> frees]

\* The end of a resize that leaves ht->no_buckets = no_buckets_new out.
Rehashed_keep_count(t, no_buckets_new, m) ==
  ResizeOutcome([t EXCEPT !.buckets = m.bk], m.h, TRUE, TRUE, 1, 0, 1)

\* free(ht->buckets); ht->buckets = buckets_new; ht->no_buckets = no_buckets_new
Rehashed(t, no_buckets_new, m) ==
  ResizeOutcome([t EXCEPT !.buckets = m.bk,
                          !.no_buckets = U64FromInt(no_buckets_new)],
                m.h, TRUE, TRUE, 1, 0, 1)

\* hash_table_resize that has given up the old array when calloc fails (as
\* a failed realloc that freed its argument would).
ResizeTo_drop_on_failure(t, h, alloc_ok, no_buckets_new) ==
  IF no_buckets_new = -1 THEN ResizeOutcome(t, h, TRUE, FALSE, 0, 0, 0)
  ELSE IF ~alloc_ok THEN ResizeOutcome([t EXCEPT !.buckets = <<>>], h, TRUE, FALSE, 1, 1, 1)
  ELSE Rehashed(t, no_buckets_new,
                RehashBuckets(t.hash_function, t.buckets,
                              IntFromU64(t.no_buckets), no_buckets_new,
                              Mem(<<>>, h)))

\* hash_table_resize once the load factor is reached, no_buckets_new being
\* what get_next_prime_number returned.
ResizeTo(t, h, alloc_ok, no_buckets_new) ==
  IF no_buckets_new = -1 THEN ResizeOutcome(t, h, TRUE, FALSE, 0, 0, 0)
  ELSE IF ~alloc_ok THEN ResizeOutcome(t, h, TRUE, FALSE, 1, 1, 0)
  ELSE Rehashed(t, no_buckets_new,
                RehashBuckets(t.hash_function, t.buckets,
                              IntFromU64(t.no_buckets), no_buckets_new,
                              Mem(<<>>, h)))

\* hash_table_resize.  alloc_ok: whether calloc of the new array succeeds.
hash_table_resize(t, h, alloc_ok) ==
  IF ~LoadReached(t) THEN ResizeOutcome(t, h, FALSE, FALSE, 0, 0, 0)
  ELSE ResizeTo(t, h, alloc_ok, get_next_prime_number(IntFromU64(t.no_buckets)))

\* ------------------------------------------------------------------ create
\* The struct before any table exists (ht = NULL).
NoTable ==
  [no_buckets |-> U64FromNat(0), load_factor |-> <<0, 1>>,
   hash_function |-> "NULL", key_equiv |-> "NULL", value_equiv |-> "NULL",
   size |-> 0, buckets |-> <<>>]

\* The outcome of a failed creation: NULL.
NoCreate(callocs, failed, frees) ==
  [ht |-> NULL, t |-> NoTable, callocs |-> callocs, failed |-> failed,
   frees |-> frees, crashed |-> FALSE]

\* The initialising loop for (int i = 0; i < ht->no_buckets; ++i) compares its
\* int counter as a size_t.  For a bucket count beyond INT_MAX the counter
\* reaches INT_MAX and ++i overflows, which is undefined: either it wraps to
\* INT_MIN, which compares as a size_t above every bucket count, and the loop
\* ends (wraps), or the loop runs on past the array and the process dies.
InitLoopEnds(no_buckets, wraps) == U64IsNat(no_buckets) \/ wraps

\* The process died inside hash_table_create_dynamic, both callocs made.
CreateCrashed ==
  [ht |-> NULL, t |-> NoTable, callocs |-> 2, failed |-> 0, frees |-> 0,
   crashed |-> TRUE]

\* load_factor < 0 in place of load_factor <= 0.
InvalidLoadFactor_negative(load_factor) == load_factor[1] < 0

\* load_factor <= 0
InvalidLoadFactor(load_factor) == load_factor[1] <= 0

\* hash_table_create_dynamic.  no_buckets is a size_t, passed to
\* is_number_in_prime_library through its int parameter.  table_ok,
\* buckets_ok: whether the two callocs succeed; wraps: see InitLoopEnds.
hash_table_create_dynamic(no_buckets, load_factor, func, key_comp_fun, value_comp_fun, table_ok, buckets_ok, wraps) ==
  IF ~is_number_in_prime_library(IntFromU64(no_buckets)) THEN NoCreate(0, 0, 0)
  ELSE IF InvalidLoadFactor(load_factor) THEN NoCreate(0, 0, 0)
  ELSE IF ~table_ok THEN NoCreate(1, 1, 0)
  ELSE IF ~buckets_ok THEN NoCreate(2, 1, 1)
  ELSE IF ~InitLoopEnds(no_buckets, wraps) THEN CreateCrashed
  ELSE [ht |-> 1,
        t  |-> [no_buckets    |-> no_buckets,
                load_factor   |-> load_factor,
                hash_function |-> IF func = "NULL"
                                  THEN "default_hash_function" ELSE func,
                key_equiv     |-> IF key_comp_fun = "NULL"
                                  THEN "default_key_equiv" ELSE key_comp_fun,
                value_equiv   |-> IF value_comp_fun = "NULL"
                                  THEN "default_value_equiv" ELSE value_comp_fun,
                size          |-> 0,
                buckets       |-> <<>>],
        callocs |-> 2, failed |-> 0, frees |-> 0, crashed |-> FALSE]

\* hash_table_create: 17 buckets, load factor 0.75.
hash_table_create(func, key_comp_fun, value_comp_fun, table_ok, buckets_ok) ==
  hash_table_create_dynamic(U64FromNat(17), <<3, 4>>, func, key_comp_fun,
                            value_comp_fun, table_ok, buckets_ok, TRUE)

\* ------------------------------------------------------------------ insert
\* entry_create: the heap with the new node n initialised.
entry_create_no_next(h, n, key, value, next) ==
  [k \in DOMAIN h \cup {n} |->
     IF k = n THEN [key |-> key, value |-> value, next |-> NULL] ELSE h[k]]

\* entry_create without new_entry->key = key: the key is the zero calloc left.
entry_create_no_key(h, n, key, value, next) ==
  [k \in DOMAIN h \cup {n} |->
     IF k = n THEN [key |-> 0, value |-> value, next |-> next] ELSE h[k]]

entry_create(h, n, key, value, next) ==
  [k \in DOMAIN h \cup {n} |->
     IF k = n THEN [key |-> key, value |-> value, next |-> next] ELSE h[k]]

\* The outcome of hash_table_insert after the resize outcome rs.
InsertOutcome(rs, t, h, linked, callocs, failed) ==
  [t |-> t, h |-> h, reached |-> rs.reached, resized |-> rs.resized,
   linked |-> linked, callocs |-> rs.callocs + callocs,
   failed |-> rs.failed + failed, frees |-> rs.frees]

\* Linking the new entry without ht->size += 1.
LinkNew_no_count(rs, m, entry, new_entry) ==
  InsertOutcome(rs, [rs.t EXCEPT !.buckets = SetNext(m, entry, new_entry).bk],
                SetNext(m, entry, new_entry).h, TRUE, 1, 0)

\* entry->next = new_entry; ht->size += 1
LinkNew(rs, m, entry, new_entry) ==
  InsertOutcome(rs, [rs.t EXCEPT !.buckets = SetNext(m, entry, new_entry).bk,
                                 !.size = @ + 1],
                SetNext(m, entry, new_entry).h, TRUE, 1, 0)

\* The if of hash_table_insert with next->value = value left out.
InsertAt_keep_value(rs, key, value, entry_ok, entry, next) ==
  IF next # NULL
     /\ Hash(rs.t.hash_function, rs.h[next].key) = Hash(rs.t.hash_function, key)
  THEN InsertOutcome(rs, rs.t, rs.h, FALSE, 0, 0)
  ELSE IF ~entry_ok THEN InsertOutcome(rs, rs.t, rs.h, FALSE, 1, 1)
  ELSE LinkNew(rs,
               Mem(rs.t.buckets,
                   entry_create(rs.h, FreeNode(rs.h), key, value, next)),
               entry, FreeNode(rs.h))

\* hash_table_insert without the test for the key being there: it always
\* creates an entry.
InsertAt_always_new(rs, key, value, entry_ok, entry, next) ==
  IF ~entry_ok THEN InsertOutcome(rs, rs.t, rs.h, FALSE, 1, 1)
  ELSE LinkNew(rs,
               Mem(rs.t.buckets,
                   entry_create(rs.h, FreeNode(rs.h), key, value, next)),
               entry, FreeNode(rs.h))

\* The if of hash_table_insert comparing the keys themselves (the pointers
\* of string keys) where the code compares their hashes.
InsertAt_by_key(rs, key, value, entry_ok, entry, next) ==
  IF next # NULL /\ rs.h[next].key = key
  THEN InsertOutcome(rs, rs.t, [rs.h EXCEPT ![next].value = value], FALSE, 0, 0)
  ELSE IF ~entry_ok THEN InsertOutcome(rs, rs.t, rs.h, FALSE, 1, 1)
  ELSE LinkNew(rs,
               Mem(rs.t.buckets,
                   entry_create(rs.h, FreeNode(rs.h), key, value, next)),
               entry, FreeNode(rs.h))

\* The if of hash_table_insert with ht->size += 1 ahead of the allocation:
\* a failed allocation is counted.
InsertAt_count_failed(rs, key, value, entry_ok, entry, next) ==
  IF next # NULL
     /\ Hash(rs.t.hash_function, rs.h[next].key) = Hash(rs.t.hash_function, key)
  THEN InsertOutcome(rs, rs.t, [rs.h EXCEPT ![next].value = value], FALSE, 0, 0)
  ELSE IF ~entry_ok
       THEN InsertOutcome(rs, [rs.t EXCEPT !.size = @ + 1], rs.h, FALSE, 1, 1)
  ELSE LinkNew(rs,
               Mem(rs.t.buckets,
                   entry_create(rs.h, FreeNode(rs.h), key, value, next)),
               entry, FreeNode(rs.h))

\* The if of hash_table_insert, with entry the predecessor found and next
\* its successor.
InsertAt(rs, key, value, entry_ok, entry, next) ==
  IF next # NULL
     /\ Hash(rs.t.hash_function, rs.h[next].key) = Hash(rs.t.hash_function, key)
  THEN InsertOutcome(rs, rs.t, [rs.h EXCEPT ![next].value = value], FALSE, 0, 0)
  ELSE IF ~entry_ok THEN InsertOutcome(rs, rs.t, rs.h, FALSE, 1, 1)
  ELSE LinkNew(rs,
               Mem(rs.t.buckets,
                   entry_create(rs.h, FreeNode(rs.h), key, value, next)),
               entry, FreeNode(rs.h))

\* hash_table_insert after hash_table_resize returned rs.
InsertKey(rs, key, value, entry_ok, entry) ==
  InsertAt(rs, key, value, entry_ok, entry,
           NextOf(Mem(rs.t.buckets, rs.h), entry))

\* hash_table_insert after hash_table_resize returned rs.
InsertResized(rs, key, value, entry_ok) ==
  InsertKey(rs, key, value, entry_ok,
            find_previous_entry_for_key(
              rs.t.hash_function, Mem(rs.t.buckets, rs.h),
              Sentinel(BucketOf(rs.t, key)), Hash(rs.t.hash_function, key)))

\* hash_table_insert.  resize_ok, entry_ok: whether the calloc of the resized
\* array and of the new entry succeed.
hash_table_insert(t, h, key, value, resize_ok, entry_ok) ==
  InsertResized(hash_table_resize(t, h, resize_ok), key, value, entry_ok)

\* ----------------------------------------------------- remove, clear, destroy
\* The outcome of hash_table_remove.
RemoveOutcome(ret, value, t, h) ==
  [ret |-> ret, value |-> value, t |-> t, h |-> h]

\* The else branch of hash_table_remove that only counts: the entry stays
\* linked and allocated.
Unlink_count_only(t, m, entry, entry_to_remove, value) ==
  RemoveOutcome(TRUE, value, [t EXCEPT !.size = @ - 1], m.h)

\* entry->next = entry_to_remove->next; entry_destroy(entry_to_remove);
\* ht->size -= 1
Unlink(t, m, entry, entry_to_remove, value) ==
  RemoveOutcome(
    TRUE, value,
    [t EXCEPT !.buckets = SetNext(m, entry, m.h[entry_to_remove].next).bk,
              !.size = @ - 1],
    entry_destroy(SetNext(m, entry, m.h[entry_to_remove].next).h,
                  entry_to_remove))

\* The else branch of hash_table_remove, with entry the predecessor found.
RemoveAfter(t, h, entry, value) ==
  Unlink(t, Mem(t.buckets, h), entry, NextOf(Mem(t.buckets, h), entry), value)

\* hash_table_remove that begins with a resize of the table, as
\* hash_table_insert does.
hash_table_remove_resizing(t, h, key) ==
  IF ~hash_table_lookup(t, h, key).found THEN RemoveOutcome(FALSE, 0, t, h)
  ELSE RemoveAfter(hash_table_resize(t, h, TRUE).t, hash_table_resize(t, h, TRUE).h,
                   find_previous_entry_for_key(
                     t.hash_function,
                     Mem(hash_table_resize(t, h, TRUE).t.buckets,
                         hash_table_resize(t, h, TRUE).h),
                     Sentinel(BucketOf(hash_table_resize(t, h, TRUE).t, key)),
                     Hash(t.hash_function, key)),
                   hash_table_lookup(t, h, key).value)

\* hash_table_remove with ht->size -= 1 ahead of the test of entry_found.
hash_table_remove_count_first(t, h, key) ==
  IF ~hash_table_lookup(t, h, key).found
  THEN RemoveOutcome(FALSE, 0, [t EXCEPT !.size = @ - 1], h)
  ELSE RemoveAfter(t, h,
                   find_previous_entry_for_key(
                     t.hash_function, Mem(t.buckets, h),
                     Sentinel(BucketOf(t, key)), Hash(t.hash_function, key)),
                   hash_table_lookup(t, h, key).value)

\* hash_table_remove: ret, the value stored through result when ret is true,
\* and the table and heap afterwards.
hash_table_remove(t, h, key) ==
  IF ~hash_table_lookup(t, h, key).found THEN RemoveOutcome(FALSE, 0, t, h)
  ELSE RemoveAfter(t, h,
                   find_previous_entry_for_key(
                     t.hash_function, Mem(t.buckets, h),
                     Sentinel(BucketOf(t, key)), Hash(t.hash_function, key)),
                   hash_table_lookup(t, h, key).value)

\* One round of the while loop of hash_table_clear at bucket b:
\* first_entry->next = cursor->next; entry_destroy(cursor); ht->size -= 1
ClearEntry(t, h, b, cursor) ==
  [t |-> [t EXCEPT !.buckets = SetHead(t.buckets, b, h[cursor].next),
                   !.size = @ - 1],
   h |-> entry_destroy(h, cursor)]

\* The while loop of hash_table_clear stopping before the last entry of a
\* chain (while (cursor->next != NULL)).
RECURSIVE ClearChain_keep_last(_, _)
ClearChain_keep_last(s, b) ==
  IF s.h[BucketHead(s.t.buckets, b)].next = NULL THEN s
  ELSE ClearChain_keep_last(
         ClearEntry(s.t, s.h, b, BucketHead(s.t.buckets, b)), b)

\* The while loop of hash_table_clear over the chain of bucket b; s = [t, h].
RECURSIVE ClearChain(_, _)
ClearChain(s, b) ==
  IF BucketHead(s.t.buckets, b) = NULL THEN s
  ELSE ClearChain(ClearEntry(s.t, s.h, b, BucketHead(s.t.buckets, b)), b)

\* The for loop of hash_table_clear over the buckets from b on, b being the
\* next non-empty one (no_buckets when there is none).
RECURSIVE ClearFrom(_, _)
ClearFrom(s, b) ==
  IF b >= U64ToNat(s.t.no_buckets) THEN s
  ELSE ClearFrom(ClearChain(s, b),
                 NextBucket(s.t.buckets, b + 1, U64ToNat(s.t.no_buckets)))

hash_table_clear(t, h) ==
  ClearFrom([t |-> t, h |-> h], NextBucket(t.buckets, 0, U64ToNat(t.no_buckets)))

hash_table_size(t) == t.size

\* hash_table_is_empty with != in place of ==.
hash_table_is_empty_nonzero(t) == hash_table_size(t) # 0

hash_table_is_empty(t) == hash_table_size(t) = 0

\* ------------------------------------------------- keys, values, predicates
\* The linked list of the repository (linked_list.h) is used through create,
\* append, get and destroy.  A list_t is the sequence of its cells in append
\* order.  A cell holds the element it was given: <<"elem", e>>, the copy of
\* an element passed by value, or <<"ref", field, p>>, the place of the
\* element in entry p (read where it lives).
linked_list_create == <<>>

linked_list_append(list, cell) == Append(list, cell)

linked_list_size(list) == Len(list)

\* What reading a cell gives with the heap h: the copy, or what the place
\* holds; -1 stands for what the place of a freed entry holds.
CellValue(h, cell) ==
  IF cell[1] = "elem" THEN cell[2]
  ELSE IF cell[3] \notin DOMAIN h THEN -1
  ELSE IF cell[2] = "key" THEN h[cell[3]].key
  ELSE h[cell[3]].value

\* linked_list_get(list, index), index from 0; past the end it gives the
\* zero element.
linked_list_get(list, h, index) ==
  IF index + 1 \in DOMAIN list THEN CellValue(h, list[index + 1]) ELSE 0

\* The list as the sequence of the elements read from it.
ListElems(list, h) == [i \in DOMAIN list |-> linked_list_get(list, h, i - 1)]

\* A keys list that keeps the place of cursor->key instead of its copy.
KeyCell_ref(h, cursor) == <<"ref", "key", cursor>>

\* The argument of linked_list_append(keys, cursor->key): passed by value.
KeyCell(h, cursor) == <<"elem", h[cursor].key>>

\* The argument of linked_list_append(values, cursor->value).
ValueCell(h, cursor) == <<"elem", h[cursor].value>>

\* The while loop of hash_table_keys from cursor on.
RECURSIVE KeysChain(_, _, _)
KeysChain(h, cursor, keys) ==
  IF cursor = NULL THEN keys
  ELSE KeysChain(h, h[cursor].next, linked_list_append(keys, KeyCell(h, cursor)))

\* The for loop of hash_table_keys from bucket b on, b being the next
\* non-empty one (no_buckets when there is none).
RECURSIVE KeysFrom(_, _, _, _)
KeysFrom(t, h, b, keys) ==
  IF b >= U64ToNat(t.no_buckets) THEN keys
  ELSE KeysFrom(t, h, NextBucket(t.buckets, b + 1, U64ToNat(t.no_buckets)),
                KeysChain(h, BucketHead(t.buckets, b), keys))

hash_table_keys(t, h) ==
  KeysFrom(t, h, NextBucket(t.buckets, 0, U64ToNat(t.no_buckets)),
           linked_list_create)

\* The while loop of hash_table_values that prepends (a list built by
\* pushing at the front).
RECURSIVE ValuesChain_push(_, _, _)
ValuesChain_push(h, cursor, values) ==
  IF cursor = NULL THEN values
  ELSE ValuesChain_push(h, h[cursor].next, <<ValueCell(h, cursor)>> \o values)

\* The while loop of hash_table_values from cursor on.
RECURSIVE ValuesChain(_, _, _)
ValuesChain(h, cursor, values) ==
  IF cursor = NULL THEN values
  ELSE ValuesChain(h, h[cursor].next,
                   linked_list_append(values, ValueCell(h, cursor)))

\* The for loop of hash_table_values from bucket b on.
RECURSIVE ValuesFrom(_, _, _, _)
ValuesFrom(t, h, b, values) ==
  IF b >= U64ToNat(t.no_buckets) THEN values
  ELSE ValuesFrom(t, h, NextBucket(t.buckets, b + 1, U64ToNat(t.no_buckets)),
                  ValuesChain(h, BucketHead(t.buckets, b), values))

hash_table_values(t, h) ==
  ValuesFrom(t, h, NextBucket(t.buckets, 0, U64ToNat(t.no_buckets)),
             linked_list_create)

\* The predicates clients pass, by name.  x is the element or int behind the
\* extra pointer.
Predicates == {"int_key_less", "int_key_equiv", "int_value_equiv"}

\* default_key_equiv comparing the entry's value with x.
default_key_equiv_value(key, value, x) == value = x

default_key_equiv(key, value_ignored, x) == key = x

default_value_equiv(key_ignored, value, x) == value = x

int_key_less(key, value_ignored, x) == key < x

\* P(key, value, x)
Pred(P, key, value, x) ==
  IF P = "int_key_less" THEN int_key_less(key, value, x)
  ELSE IF P \in {"default_value_equiv", "int_value_equiv", "str_value_equiv"}
       THEN default_value_equiv(key, value, x)
       ELSE default_key_equiv(key, value, x)

\* The result of hash_table_all / hash_table_any and the number of calls of P.
Verdict(result, calls) == [result |-> result, calls |-> calls]

\* The for loop of hash_table_all giving up after the first pair.
AllLoop_first(keys, values, h, size, P, x, i, r) ==
  IF ~(i < size /\ r.result) THEN r
  ELSE Verdict(Pred(P, linked_list_get(keys, h, i), linked_list_get(values, h, i), x), 1)

\* The for loop of hash_table_all from position i on.
RECURSIVE AllLoop(_, _, _, _, _, _, _, _)
AllLoop(keys, values, h, size, P, x, i, r) ==
  IF ~(i < size /\ r.result) THEN r
  ELSE AllLoop(keys, values, h, size, P, x, i + 1,
               Verdict(r.result /\ Pred(P, linked_list_get(keys, h, i),
                                        linked_list_get(values, h, i), x),
                       r.calls + 1))

hash_table_all(t, h, P, x) ==
  AllLoop(hash_table_keys(t, h), hash_table_values(t, h), h,
          hash_table_size(t), P, x, 0, Verdict(TRUE, 0))

\* The for loop of hash_table_any without the !result test: it goes on after
\* a pair satisfied P.
RECURSIVE AnyLoop_no_stop(_, _, _, _, _, _, _, _)
AnyLoop_no_stop(keys, values, h, size, P, x, i, r) ==
  IF ~(i < size) THEN r
  ELSE AnyLoop_no_stop(keys, values, h, size, P, x, i + 1,
                       Verdict(r.result \/ Pred(P, linked_list_get(keys, h, i),
                                                linked_list_get(values, h, i), x),
                               r.calls + 1))

\* The for loop of hash_table_any from position i on.
RECURSIVE AnyLoop(_, _, _, _, _, _, _, _)
AnyLoop(keys, values, h, size, P, x, i, r) ==
  IF ~(i < size /\ ~r.result) THEN r
  ELSE AnyLoop(keys, values, h, size, P, x, i + 1,
               Verdict(~r.result /\ Pred(P, linked_list_get(keys, h, i),
                                         linked_list_get(values, h, i), x),
                       r.calls + 1))

hash_table_any(t, h, P, x) ==
  AnyLoop(hash_table_keys(t, h), hash_table_values(t, h), h,
          hash_table_size(t), P, x, 0, Verdict(FALSE, 0))

\* hash_table_has_key passing the value predicate.
hash_table_has_key_by_value(t, h, key) == hash_table_any(t, h, t.value_equiv, key)

hash_table_has_key(t, h, key) == hash_table_any(t, h, t.key_equiv, key)

hash_table_has_value(t, h, value) == hash_table_any(t, h, t.value_equiv, value)

\* ------------------------------------------------------------- apply_to_all
\* The array hash_table_values_arr builds: arr, the size slots calloc zeroed
\* (index -> pointer to an entry's value, NULL when never written), and oob,
\* whether a store went past the last slot.
ValuesArr(arr, oob) == [arr |-> arr, oob |-> oob]

\* values[index] = &cursor->value
StoreValuePtr(a, index, cursor) ==
  IF index \in DOMAIN a.arr THEN ValuesArr([a.arr EXCEPT ![index] = cursor], a.oob)
  ELSE ValuesArr(a.arr, TRUE)

\* The while loop of hash_table_values_arr in bucket i, from cursor on, j
\* being the position in the chain.
RECURSIVE ArrChain(_, _, _, _, _)
ArrChain(h, cursor, i, j, a) ==
  IF cursor = NULL THEN a
  ELSE ArrChain(h, h[cursor].next, i, j + 1, StoreValuePtr(a, i + j, cursor))

\* The for loop of hash_table_values_arr from bucket i on.
RECURSIVE ArrFrom(_, _, _, _)
ArrFrom(t, h, i, a) ==
  IF i >= U64ToNat(t.no_buckets) THEN a
  ELSE ArrFrom(t, h, NextBucket(t.buckets, i + 1, U64ToNat(t.no_buckets)),
               ArrChain(h, BucketHead(t.buckets, i), i, 0, a))

hash_table_values_arr(t, h) ==
  ArrFrom(t, h, NextBucket(t.buckets, 0, U64ToNat(t.no_buckets)),
          ValuesArr([i \in 0..(hash_table_size(t) - 1) |-> NULL], FALSE))

\* f(key, value, x) for the apply functions clients pass: the new *value.
\* set_value: *value = *extra.
ApplyFun(f, key, old, x) == x

\* The outcome of hash_table_apply_to_all: the heap, the calls of f made as
\* <<key, entry whose value was passed>>, and whether the process died.
Applied(h, calls, crashed) == [h |-> h, calls |-> calls, crashed |-> crashed]

\* The for loop of hash_table_apply_to_all from position i on.  f writes
\* through value: with value = NULL the process dies.
RECURSIVE ApplyLoop(_, _, _, _, _, _, _)
ApplyLoop(keys, arr, size, f, x, i, r) ==
  IF ~(i < size) THEN r
  ELSE IF arr[i] = NULL THEN Applied(r.h, r.calls, TRUE)
  ELSE ApplyLoop(keys, arr, size, f, x, i + 1,
                 Applied([r.h EXCEPT ![arr[i]].value =
                            ApplyFun(f, linked_list_get(keys, r.h, i), @, x)],
                         Append(r.calls, <<linked_list_get(keys, r.h, i), arr[i]>>),
                         FALSE))

\* hash_table_apply_to_all after hash_table_values_arr returned a.  A store
\* past the end of the array is undefined: the process dies there, or the
\* store lands in memory nothing reads (survives) and the call goes on.
ApplyWith(t, h, f, x, a, survives) ==
  IF a.oob /\ ~survives THEN Applied(h, <<>>, TRUE)
  ELSE ApplyLoop(hash_table_keys(t, h), a.arr, hash_table_size(t), f, x, 0,
                 Applied(h, <<>>, FALSE))

hash_table_apply_to_all(t, h, f, x, survives) ==
  ApplyWith(t, h, f, x, hash_table_values_arr(t, h), survives)

\* ------------------------------------------------------------------- state
VARIABLES
  ht,       \* the client's table pointer: NULL, or 1 for the allocated struct
  table,    \* the struct hash_table ht points to (NoTable while ht = NULL)
  heap,     \* the allocated entry nodes: id -> [key, value, next]
  last,     \* the last call: its arguments, return value and what it did
  lists,    \* the key list and value list the client holds
  thread,   \* per thread: the call it is in, its position and its locals
  freed     \* the entry blocks passed to free, with what they held

vars == <<ht, table, heap, last, lists, thread, freed>>

\* The record of a call; the fields a call does not use keep these values.
\* result is the element behind the result pointer after the call: the
\* client passes a zeroed element, as every test does (calloc).
\* follows_insert: the call before this one was an insert of the same key
\* whose allocations succeeded.  pred, x: the predicate or function passed
\* and the element behind its extra argument; calls: the number of calls of
\* it; applied: the calls of an apply function as <<key, entry>>; died_in:
\* the call a dead process died in; resize_ok, entry_ok: whether the calloc
\* of a resized bucket array and of a new entry succeed in an insert.
NoCall ==
  [op |-> "none", key |-> 0, value |-> 0, ret |-> FALSE, result |-> 0,
   follows_insert |-> FALSE,
   arg_buckets |-> U64FromNat(0), arg_load |-> <<0, 1>>,
   reached |-> FALSE, resized |-> FALSE, linked |-> FALSE,
   callocs |-> 0, failed |-> 0, frees |-> 0, size_before |-> 0,
   pred |-> "none", x |-> 0, calls |-> 0, applied |-> <<>>,
   died_in |-> "none", resize_ok |-> TRUE, entry_ok |-> TRUE]

\* The threads that call into the table.
Threads == {"t1", "t2"}

\* A thread outside every call.  pc: the statement it is at; op, key, value:
\* the call and its arguments; bucket, entry, next, node, size: the locals
\* bucket, entry, next, new_entry or entry_to_remove, and the value of
\* ht->size read by ht->size += 1 or -= 1; stored: an insert that returned
\* linked or updated its entry; ret: what a remove returned; raced: the call
\* ran while another thread was inside a call.
NoThread ==
  [pc |-> "idle", op |-> "none", key |-> 0, value |-> 0, bucket |-> 0,
   entry |-> NULL, next |-> NULL, node |-> NULL, size |-> 0,
   stored |-> FALSE, ret |-> FALSE, raced |-> FALSE]

\* The client holds no lists.
NoLists == [held |-> FALSE, keys |-> linked_list_create, values |-> linked_list_create]

\* The (bucket count, load factor) pairs clients create tables with.  Valid:
\* 17 buckets at 1/32 (reached from one entry on) and at 1/16 (from two
\* on), 16381 buckets at 1/16384 (from one on).  Invalid: bucket
\* counts that are no prime of the library (0, 16, and 2^32 + 16, 2^32 + 17,
\* which do not fit an int), load factors 0 and -0.5.
CreateArgs ==
  {<<U64FromNat(17), <<1, 32>> >>,
   <<U64FromNat(17), <<1, 16>> >>,
   <<U64FromNat(16381), <<1, 16384>> >>,
   <<U64FromNat(0), <<1, 2>> >>,
   <<U64FromNat(16), <<3, 4>> >>,
   << <<0, 1, 0, 16>>, <<3, 4>> >>,
   << <<0, 1, 0, 17>>, <<3, 4>> >>,
   <<U64FromNat(17), <<0, 1>> >>,
   <<U64FromNat(16381), <<-1, 2>> >>,
   <<U64FromNat(16), <<0, 1>> >>}

\* The (hash, key_equiv, value_equiv) function pointers of a table of
\* integer keys, and of a table of string keys.
IntFuncs == <<"NULL", "NULL", "NULL">>

StrFuncs == <<"string_knr_hash", "str_key_equiv", "str_value_equiv">>

\* The operations below index the bucket array with an int and run their
\* loops with an int counter: they are explored on tables whose bucket count
\* fits an int (on the others the counter overflows as in InitLoopEnds).
Usable == ht # NULL /\ U64IsNat(table.no_buckets)

\* Whether the key's hash is stored in the table.
Present(key) == hash_table_lookup(table, heap, key).found

\* The process died in its last call: it makes no further call.
Crashed == last.op = "crash"

\* Whether the last call was an insert of key whose allocations succeeded.
JustInserted(key) == last.op = "insert" /\ last.key = key /\ last.failed = 0

Init ==
  /\ ht = NULL
  /\ table = NoTable
  /\ heap = <<>>
  /\ last = NoCall
  /\ lists = NoLists
  /\ thread = [t \in Threads |-> NoThread]
  /\ freed = <<>>

\* ht = hash_table_create_dynamic(no_buckets, load_factor, f, k, v)
Create(no_buckets, load_factor, funcs, table_ok, buckets_ok, wraps) ==
  /\ ht = NULL /\ ~Crashed
  /\ \E r \in {hash_table_create_dynamic(no_buckets, load_factor, funcs[1],
                                        funcs[2], funcs[3], table_ok, buckets_ok,
                                        wraps)} :
         /\ ht' = r.ht
         /\ table' = r.t
         /\ last' = [NoCall EXCEPT !.op = IF r.crashed THEN "crash" ELSE "create",
                                   !.died_in = IF r.crashed THEN "create" ELSE "none",
                                   !.ret = (r.ht # NULL),
                                   !.arg_buckets = no_buckets,
                                   !.arg_load = load_factor,
                                   !.callocs = r.callocs, !.failed = r.failed,
                                   !.frees = r.frees]
  /\ UNCHANGED <<heap, lists, thread, freed>>

\* ht = hash_table_create(f, k, v)
CreateDefault(funcs, table_ok, buckets_ok) ==
  /\ ht = NULL /\ ~Crashed
  /\ \E r \in {hash_table_create(funcs[1], funcs[2], funcs[3], table_ok, buckets_ok)} :
         /\ ht' = r.ht
         /\ table' = r.t
         /\ last' = [NoCall EXCEPT !.op = "create", !.ret = (r.ht # NULL),
                                   !.arg_buckets = U64FromNat(17),
                                   !.arg_load = <<3, 4>>,
                                   !.callocs = r.callocs, !.failed = r.failed,
                                   !.frees = r.frees]
  /\ UNCHANGED <<heap, lists, thread, freed>>

\* hash_table_insert(ht, key, value)
Insert(key, value, resize_ok, entry_ok) ==
  /\ Usable
  /\ \E r \in {hash_table_insert(table, heap, key, value, resize_ok, entry_ok)} :
         /\ table' = r.t
         /\ heap' = r.h
         /\ last' = [NoCall EXCEPT !.op = "insert", !.key = key, !.value = value,
                                   !.resize_ok = resize_ok, !.entry_ok = entry_ok,
                                   !.follows_insert = JustInserted(key),
                                   !.reached = r.reached, !.resized = r.resized,
                                   !.linked = r.linked, !.callocs = r.callocs,
                                   !.failed = r.failed, !.frees = r.frees,
                                   !.size_before = table.size]
  /\ UNCHANGED <<ht, lists, thread, freed>>

\* found = hash_table_lookup(ht, key, &result)
Lookup(key) ==
  /\ Usable
  /\ \E r \in {hash_table_lookup(table, heap, key)} :
         last' = [NoCall EXCEPT !.op = "lookup", !.key = key, !.ret = r.found,
                                !.result = IF r.found THEN r.value ELSE 0,
                                !.size_before = table.size]
  /\ UNCHANGED <<ht, table, heap, lists, thread, freed>>

\* size = hash_table_size(ht)
Size ==
  /\ Usable
  /\ last' = [NoCall EXCEPT !.op = "size", !.result = hash_table_size(table),
                            !.size_before = table.size]
  /\ UNCHANGED <<ht, table, heap, lists, thread, freed>>

\* empty = hash_table_is_empty(ht)
IsEmpty ==
  /\ Usable
  /\ last' = [NoCall EXCEPT !.op = "is_empty", !.ret = hash_table_is_empty(table),
                            !.size_before = table.size]
  /\ UNCHANGED <<ht, table, heap, lists, thread, freed>>

\* removed = hash_table_remove(ht, key, &result)
Remove(key) ==
  /\ Usable
  /\ \E r \in {hash_table_remove(table, heap, key)} :
         /\ table' = r.t
         /\ heap' = r.h
         /\ last' = [NoCall EXCEPT !.op = "remove", !.key = key, !.ret = r.ret,
                                   !.follows_insert = JustInserted(key),
                                   !.result = IF r.ret THEN r.value ELSE 0,
                                   !.frees = IF r.ret THEN 1 ELSE 0,
                                   !.size_before = table.size]
  /\ UNCHANGED <<ht, lists, thread, freed>>

\* hash_table_clear(ht)
Clear ==
  /\ Usable
  /\ \E r \in {hash_table_clear(table, heap)} :
         /\ table' = r.t
         /\ heap' = r.h
         /\ last' = [NoCall EXCEPT !.op = "clear",
                                   !.frees = Cardinality(DOMAIN heap) -
                                             Cardinality(DOMAIN r.h),
                                   !.size_before = table.size]
  /\ UNCHANGED <<ht, lists, thread, freed>>

\* hash_table_destroy(ht): clear, free(ht->buckets), free(ht).  The client
\* drops its pointer.
Destroy ==
  /\ Usable
  /\ \E r \in {hash_table_clear(table, heap)} :
         /\ heap' = r.h
         /\ last' = [NoCall EXCEPT !.op = "destroy",
                                   !.frees = Cardinality(DOMAIN heap) -
                                             Cardinality(DOMAIN r.h) + 2,
                                   !.size_before = table.size]
  /\ ht' = NULL
  /\ table' = NoTable
  /\ UNCHANGED <<lists, thread, freed>>

\* keys = hash_table_keys(ht); values = hash_table_values(ht), by a client
\* that holds no lists.
KeysValues ==
  /\ Usable /\ ~lists.held
  /\ lists' = [held |-> TRUE, keys |-> hash_table_keys(table, heap),
               values |-> hash_table_values(table, heap)]
  /\ last' = [NoCall EXCEPT !.op = "keys", !.size_before = table.size]
  /\ UNCHANGED <<ht, table, heap, thread, freed>>

\* linked_list_destroy(keys); linked_list_destroy(values)
DestroyLists ==
  /\ lists.held /\ ~Crashed
  /\ lists' = NoLists
  /\ last' = [NoCall EXCEPT !.op = "destroy_lists"]
  /\ UNCHANGED <<ht, table, heap, thread, freed>>

\* result = hash_table_all(ht, P, &x)
QueryAll(P, x) ==
  /\ Usable
  /\ \E r \in {hash_table_all(table, heap, P, x)} :
         last' = [NoCall EXCEPT !.op = "all", !.pred = P, !.x = x,
                                !.ret = r.result, !.calls = r.calls,
                                !.size_before = table.size]
  /\ UNCHANGED <<ht, table, heap, lists, thread, freed>>

\* result = hash_table_any(ht, P, &x)
QueryAny(P, x) ==
  /\ Usable
  /\ \E r \in {hash_table_any(table, heap, P, x)} :
         last' = [NoCall EXCEPT !.op = "any", !.pred = P, !.x = x,
                                !.ret = r.result, !.calls = r.calls,
                                !.size_before = table.size]
  /\ UNCHANGED <<ht, table, heap, lists, thread, freed>>

\* result = hash_table_has_key(ht, key)
HasKey(key) ==
  /\ Usable
  /\ \E r \in {hash_table_has_key(table, heap, key)} :
         last' = [NoCall EXCEPT !.op = "has_key", !.key = key,
                                !.ret = r.result, !.calls = r.calls,
                                !.size_before = table.size]
  /\ UNCHANGED <<ht, table, heap, lists, thread, freed>>

\* result = hash_table_has_value(ht, value)
HasValue(value) ==
  /\ Usable
  /\ \E r \in {hash_table_has_value(table, heap, value)} :
         last' = [NoCall EXCEPT !.op = "has_value", !.value = value,
                                !.ret = r.result, !.calls = r.calls,
                                !.size_before = table.size]
  /\ UNCHANGED <<ht, table, heap, lists, thread, freed>>

\* hash_table_apply_to_all(ht, f, &x).  A process that died makes no further
\* call: its table is gone with it.
Apply(f, x, survives) ==
  /\ Usable
  /\ \E r \in {hash_table_apply_to_all(table, heap, f, x, survives)} :
         /\ ht' = IF r.crashed THEN NULL ELSE ht
         /\ table' = IF r.crashed THEN NoTable ELSE table
         /\ heap' = IF r.crashed THEN <<>> ELSE r.h
         /\ last' = [NoCall EXCEPT !.op = IF r.crashed THEN "crash" ELSE "apply",
                                   !.died_in = IF r.crashed THEN "apply" ELSE "none",
                                   !.pred = f, !.x = x,
                                   !.calls = Len(r.calls), !.applied = r.calls,
                                   !.size_before = table.size]
  /\ UNCHANGED <<lists, thread, freed>>

\* Whether calloc of a new entry succeeds: the heap holds MaxNodes nodes.
HeapHasRoom == Cardinality(DOMAIN heap) < MaxNodes

\* Clients of a table of integer keys.
Next ==
  \/ \E c \in CreateArgs, a, b, w \in BOOLEAN :
       Create(c[1], c[2], IntFuncs, a, b, w)
  \/ \E a, b \in BOOLEAN : CreateDefault(IntFuncs, a, b)
  \/ \E k \in IntKeys, v \in Values : Insert(k, v, TRUE, HeapHasRoom)
  \/ \E k \in IntKeys : Lookup(k)
  \/ \E k \in IntKeys : Remove(k)
  \/ Clear
  \/ Destroy

Spec == Init /\ [][Next]_vars

\* The loop for (i = 0; i <= MaxAscKey; i++) hash_table_insert(ht, i, i) on a
\* table nothing else is inserted into or removed from, every allocation
\* succeeding: each round links one new key, so the counter i is the size.
InsertAsc == table.size <= MaxAscKey /\ Insert(table.size, table.size, TRUE, TRUE)

\* A client that creates the default table, runs the ascending loop and looks
\* keys up.
NextAsc ==
  \/ \E a, b \in BOOLEAN : CreateDefault(IntFuncs, a, b)
  \/ InsertAsc
  \/ \E k \in 0..MaxAscKey : Lookup(k)

SpecAsc == Init /\ [][NextAsc]_vars

\* The (bucket count, load factor) pairs of the tables whose allocations
\* fail: the load factor is reached from one entry on (17 at 1/32), from two
\* on (17 at 1/16), never (17 at 3/4), and on the last prime (16381).
AllocArgs ==
  {<<U64FromNat(17), <<1, 32>> >>,
   <<U64FromNat(17), <<1, 16>> >>,
   <<U64FromNat(17), <<3, 4>> >>,
   <<U64FromNat(16381), <<1, 16384>> >>}

\* Clients whose inserts meet allocation failures: the calloc of the resized
\* array and the calloc of the new entry each succeed or return NULL.
NextAlloc ==
  \/ \E c \in AllocArgs : Create(c[1], c[2], IntFuncs, TRUE, TRUE, TRUE)
  \/ \E k \in IntKeys, v \in Values, resize_ok, entry_ok \in BOOLEAN :
       Insert(k, v, resize_ok, entry_ok /\ HeapHasRoom)
  \/ \E k \in IntKeys : Lookup(k)
  \/ \E k \in IntKeys : Remove(k)

SpecAlloc == Init /\ [][NextAlloc]_vars

\* Clients of a table of string keys hashed by string_knr_hash, of 17 buckets
\* at load factor 3/4 or 1/32: "Aa" and "BB" have the same hash, 2112.
NextStr ==
  \/ CreateDefault(StrFuncs, TRUE, TRUE)
  \/ Create(U64FromNat(17), <<1, 32>>, StrFuncs, TRUE, TRUE, TRUE)
  \/ \E k \in StrKeys, v \in Values : Insert(k, v, TRUE, HeapHasRoom)
  \/ \E k \in StrKeys : Lookup(k)
  \/ \E k \in StrKeys : Remove(k)

SpecStr == Init /\ [][NextStr]_vars

\* The keys of the clients of the bulk operations: 14 and 31 share bucket 14
\* of 17 buckets; of 31 buckets 3, 14 and 31 have buckets 3, 14 and 0.
BulkKeys == {3, 14, 31}

\* The elements behind the extra argument of a predicate.
PredArgs == {1, 14, 32}

\* Whether calloc of a new entry succeeds for these clients.
BulkHeapHasRoom == Cardinality(DOMAIN heap) < MaxBulkNodes

\* Clients that fill a default table, or one of 17 buckets that grows to 31
\* with its second entry, and query it and apply set_value to it.
NextBulk ==
  \/ CreateDefault(IntFuncs, TRUE, TRUE)
  \/ Create(U64FromNat(17), <<1, 16>>, IntFuncs, TRUE, TRUE, TRUE)
  \/ \E k \in BulkKeys, v \in Values : Insert(k, v, TRUE, BulkHeapHasRoom)
  \/ \E k \in BulkKeys : Remove(k)
  \/ Clear
  \/ \E P \in Predicates, x \in PredArgs : QueryAll(P, x)
  \/ \E P \in Predicates, x \in PredArgs : QueryAny(P, x)
  \/ \E k \in BulkKeys : HasKey(k)
  \/ \E v \in Values : HasValue(v)
  \/ \E x \in Values, survives \in BOOLEAN : Apply("set_value", x, survives)

SpecBulk == Init /\ [][NextBulk]_vars

\* Clients that take the key list and the value list of such a table, go on
\* changing the table and read the lists afterwards.
NextSnap ==
  \/ CreateDefault(IntFuncs, TRUE, TRUE)
  \/ Create(U64FromNat(17), <<1, 16>>, IntFuncs, TRUE, TRUE, TRUE)
  \/ \E k \in BulkKeys, v \in Values : Insert(k, v, TRUE, HeapHasRoom)
  \/ \E k \in BulkKeys : Remove(k)
  \/ Clear
  \/ KeysValues
  \/ DestroyLists

SpecSnap == Init /\ [][NextSnap]_vars

\* The keys of the clients that read: they share bucket 14 of 17 buckets and
\* have buckets 14 and 0 of 31.
ReadKeys == {14, 31}

\* Clients that read a table of 17 buckets, which grows with the insert that
\* finds two entries, in every way between the calls that change it.
NextRead ==
  \/ Create(U64FromNat(17), <<1, 16>>, IntFuncs, TRUE, TRUE, TRUE)
  \/ \E k \in ReadKeys, v \in Values : Insert(k, v, TRUE, HeapHasRoom)
  \/ \E k \in ReadKeys : Remove(k)
  \/ Clear
  \/ Destroy
  \/ \E k \in ReadKeys : Lookup(k)
  \/ Size
  \/ IsEmpty
  \/ \E k \in ReadKeys : HasKey(k)
  \/ \E v \in Values : HasValue(v)
  \/ \E P \in Predicates : QueryAll(P, 14)
  \/ \E P \in Predicates : QueryAny(P, 14)
  \/ KeysValues
  \/ DestroyLists

SpecRead == Init /\ [][NextRead]_vars

\* ---------------------------------------------------- threads without a lock
\* Two threads call hash_table_insert and hash_table_remove on one table with
\* no lock around the calls.  A call is a sequence of steps, each the reads
\* and writes of one statement (or of one statement sequence, where noted);
\* the steps of the two calls interleave in every order.  An access to a
\* block another thread has freed is undefined: the process dies, or the
\* access goes to the block, which still holds what it held (survives).

\* The memory a thread's pointers reach: the allocated entries, and the
\* freed blocks with what they held.
Blocks(h, f) ==
  [n \in DOMAIN h \cup DOMAIN f |-> IF n \in DOMAIN h THEN h[n] ELSE f[n]]

\* The thread is inside a call.
Active(t) == thread[t].pc \notin {"idle", "done"}

\* The process dies in the call of thread t.
ThreadDies(t) ==
  /\ ht' = NULL
  /\ table' = NoTable
  /\ heap' = <<>>
  /\ freed' = <<>>
  /\ last' = [NoCall EXCEPT !.op = "crash", !.died_in = thread[t].op]
  /\ thread' = [u \in Threads |-> NoThread]
  /\ UNCHANGED lists

\* Thread t moves to the statement pc with its locals as in locals.
ThreadAt(t, locals, pc) == [thread EXCEPT ![t] = [locals EXCEPT !.pc = pc]]

\* Thread t calls hash_table_insert(ht, key, value) or
\* hash_table_remove(ht, key, &result).
Begin(t, op, key, value) ==
  /\ Usable /\ ~Crashed
  /\ thread[t].pc = "idle"
  /\ thread' =
       [u \in Threads |->
          IF u = t
          THEN [NoThread EXCEPT !.pc = IF op = "insert" THEN "resize" ELSE "lookup",
                                !.op = op, !.key = key, !.value = value,
                                !.raced = \E w \in Threads \ {t} : Active(w)]
          ELSE IF Active(u) THEN [thread[u] EXCEPT !.raced = TRUE]
          ELSE thread[u]]
  /\ UNCHANGED <<ht, table, heap, last, lists, freed>>

\* insert: ht = hash_table_resize(ht); hash_key; bucket (the resize as one
\* step).
InsertResize(t) ==
  /\ Usable /\ thread[t].pc = "resize"
  /\ \E r \in {hash_table_resize(table, heap, TRUE)} :
       /\ table' = r.t
       /\ heap' = r.h
       /\ thread' = ThreadAt(t, [thread[t] EXCEPT !.bucket = BucketOf(r.t, thread[t].key)],
                             "find")
  /\ UNCHANGED <<ht, last, lists, freed>>

\* insert: entry = find_previous_entry_for_key(...); next = entry->next
InsertFind(t) ==
  /\ Usable /\ thread[t].pc = "find"
  /\ \E entry \in {find_previous_entry_for_key(
                     table.hash_function, Mem(table.buckets, heap),
                     Sentinel(thread[t].bucket),
                     Hash(table.hash_function, thread[t].key))} :
       thread' = ThreadAt(t, [thread[t] EXCEPT
                                !.entry = entry,
                                !.next = NextOf(Mem(table.buckets, heap), entry)],
                          "test")
  /\ UNCHANGED <<ht, table, heap, last, lists, freed>>

\* insert: if (next != NULL && hash(next->key) == hash_key) next->value =
\* value; else new_entry = entry_create(key, value, next), returning when it
\* is NULL: calloc fails when the heap holds MaxNodes entries.
InsertTest(t, survives) ==
  /\ Usable /\ thread[t].pc = "test"
  /\ IF thread[t].next # NULL /\ thread[t].next \notin DOMAIN heap /\ ~survives
     THEN ThreadDies(t)
     ELSE /\ IF /\ thread[t].next # NULL
                /\ Hash(table.hash_function, Blocks(heap, freed)[thread[t].next].key)
                     = Hash(table.hash_function, thread[t].key)
             THEN /\ heap' = IF thread[t].next \in DOMAIN heap
                             THEN [heap EXCEPT ![thread[t].next].value = thread[t].value]
                             ELSE heap
                  /\ freed' = IF thread[t].next \in DOMAIN heap THEN freed
                              ELSE [freed EXCEPT ![thread[t].next].value = thread[t].value]
                  /\ thread' = ThreadAt(t, [thread[t] EXCEPT !.stored = TRUE], "done")
             ELSE IF Cardinality(DOMAIN heap) >= MaxNodes
             THEN /\ thread' = ThreadAt(t, thread[t], "done")
                  /\ UNCHANGED <<heap, freed>>
             ELSE /\ heap' = entry_create(heap, FreeNode(Blocks(heap, freed)),
                                          thread[t].key, thread[t].value,
                                          thread[t].next)
                  /\ thread' = ThreadAt(t, [thread[t] EXCEPT
                                              !.node = FreeNode(Blocks(heap, freed))],
                                        "link")
                  /\ UNCHANGED freed
          /\ UNCHANGED <<ht, table, last, lists>>

\* entry->next = q by thread t, which goes on at pc.
StoreNext(t, q, survives, pc) ==
  IF thread[t].entry > 0 /\ thread[t].entry \notin DOMAIN heap /\ ~survives
  THEN ThreadDies(t)
  ELSE /\ table' = IF thread[t].entry < 0
                   THEN [table EXCEPT !.buckets =
                           SetHead(table.buckets, -thread[t].entry - 1, q)]
                   ELSE table
       /\ heap' = IF thread[t].entry \in DOMAIN heap
                  THEN [heap EXCEPT ![thread[t].entry].next = q]
                  ELSE heap
       /\ freed' = IF thread[t].entry \in DOMAIN freed \ DOMAIN heap
                   THEN [freed EXCEPT ![thread[t].entry].next = q]
                   ELSE freed
       /\ thread' = ThreadAt(t, thread[t], pc)
       /\ UNCHANGED <<ht, last, lists>>

\* insert: entry->next = new_entry
InsertLink(t, survives) ==
  /\ Usable /\ thread[t].pc = "link"
  /\ StoreNext(t, thread[t].node, survives, "size_read")

\* ht->size += 1 and ht->size -= 1, the load: the thread reads ht->size.
SizeRead(t) ==
  /\ Usable /\ thread[t].pc = "size_read"
  /\ thread' = ThreadAt(t, [thread[t] EXCEPT !.size = table.size], "size_write")
  /\ UNCHANGED <<ht, table, heap, last, lists, freed>>

\* ht->size += 1 and ht->size -= 1, the store of the value read plus or
\* minus one (-1 stands for the size_t below 0); the call returns.
SizeWrite(t) ==
  /\ Usable /\ thread[t].pc = "size_write"
  /\ table' = [table EXCEPT !.size = IF thread[t].op = "insert"
                                     THEN thread[t].size + 1
                                     ELSE thread[t].size - 1]
  /\ thread' = ThreadAt(t, [thread[t] EXCEPT !.stored = (thread[t].op = "insert"),
                                             !.ret = (thread[t].op = "remove")],
                        "done")
  /\ UNCHANGED <<ht, heap, last, lists, freed>>

\* remove: hash_key; bucket; entry_found = hash_table_lookup(ht, key, result),
\* returning false when it is false.
RemoveLookup(t) ==
  /\ Usable /\ thread[t].pc = "lookup"
  /\ thread' = ThreadAt(t, [thread[t] EXCEPT !.bucket = BucketOf(table, thread[t].key)],
                        IF hash_table_lookup(table, heap, thread[t].key).found
                        THEN "previous" ELSE "done")
  /\ UNCHANGED <<ht, table, heap, last, lists, freed>>

\* remove: entry = find_previous_entry_for_key(...); entry_to_remove =
\* entry->next; next = entry_to_remove->next.  With entry_to_remove NULL the
\* read of its next kills the process.
RemoveFind(t) ==
  /\ Usable /\ thread[t].pc = "previous"
  /\ \E entry \in {find_previous_entry_for_key(
                     table.hash_function, Mem(table.buckets, heap),
                     Sentinel(thread[t].bucket),
                     Hash(table.hash_function, thread[t].key))} :
       IF NextOf(Mem(table.buckets, heap), entry) = NULL THEN ThreadDies(t)
       ELSE /\ thread' =
                 ThreadAt(t, [thread[t] EXCEPT
                                !.entry = entry,
                                !.node = NextOf(Mem(table.buckets, heap), entry),
                                !.next = heap[NextOf(Mem(table.buckets, heap), entry)].next],
                          "unlink")
            /\ UNCHANGED <<ht, table, heap, last, lists, freed>>

\* remove: entry->next = next
RemoveUnlink(t, survives) ==
  /\ Usable /\ thread[t].pc = "unlink"
  /\ StoreNext(t, thread[t].next, survives, "free")

\* remove: entry_destroy(entry_to_remove).  Freeing a block that is freed
\* already is undefined: the process dies, or nothing happens.
RemoveFree(t, survives) ==
  /\ Usable /\ thread[t].pc = "free"
  /\ IF thread[t].node \notin DOMAIN heap /\ ~survives THEN ThreadDies(t)
     ELSE /\ heap' = entry_destroy(heap, thread[t].node)
          /\ freed' = IF thread[t].node \in DOMAIN heap
                      THEN [n \in DOMAIN freed \cup {thread[t].node} |->
                              IF n = thread[t].node THEN heap[n] ELSE freed[n]]
                      ELSE freed
          /\ thread' = ThreadAt(t, thread[t], "size_read")
          /\ UNCHANGED <<ht, table, last, lists>>

\* hash_table_insert(ht, key, value) before any thread calls.
FillInsert(key, value) ==
  /\ \A t \in Threads : thread[t].pc = "idle"
  /\ Insert(key, value, TRUE, HeapHasRoom)

\* A client fills a default table; then two threads each make one call,
\* hash_table_insert or hash_table_remove, on it.  The keys 14 and 31 share
\* bucket 14 of 17.
NextThreads ==
  \/ CreateDefault(IntFuncs, TRUE, TRUE)
  \/ \E k \in ReadKeys, v \in Values : FillInsert(k, v)
  \/ \E t \in Threads, k \in ReadKeys, v \in Values : Begin(t, "insert", k, v)
  \/ \E t \in Threads, k \in ReadKeys : Begin(t, "remove", k, 0)
  \/ \E t \in Threads : InsertResize(t)
  \/ \E t \in Threads : InsertFind(t)
  \/ \E t \in Threads, survives \in BOOLEAN : InsertTest(t, survives)
  \/ \E t \in Threads, survives \in BOOLEAN : InsertLink(t, survives)
  \/ \E t \in Threads : SizeRead(t)
  \/ \E t \in Threads : SizeWrite(t)
  \/ \E t \in Threads : RemoveLookup(t)
  \/ \E t \in Threads : RemoveFind(t)
  \/ \E t \in Threads, survives \in BOOLEAN : RemoveUnlink(t, survives)
  \/ \E t \in Threads, survives \in BOOLEAN : RemoveFree(t, survives)

SpecThreads == Init /\ [][NextThreads]_vars

\* -------------------------------------------------------------- properties
\* The number of entries linked from cursor on; fuel bounds the walk.
RECURSIVE ChainLength(_, _, _)
ChainLength(h, cursor, fuel) ==
  IF cursor = NULL \/ fuel = 0 THEN 0
  ELSE 1 + ChainLength(h, h[cursor].next, fuel - 1)

\* The number of entries linked in the chains of the buckets from b on, b
\* being the next non-empty one.
RECURSIVE LinkedFrom(_, _, _)
LinkedFrom(t, h, b) ==
  IF b >= U64ToNat(t.no_buckets) THEN 0
  ELSE ChainLength(h, BucketHead(t.buckets, b), Cardinality(DOMAIN h) + 1)
       + LinkedFrom(t, h, NextBucket(t.buckets, b + 1, U64ToNat(t.no_buckets)))

\* The number of entries linked in all bucket chains.
LinkedEntries(t, h) ==
  LinkedFrom(t, h, NextBucket(t.buckets, 0, U64ToNat(t.no_buckets)))

\* What a lookup returns for a key stored with this value.
Found(value) == [found |-> TRUE, value |-> value]

\* C1 (round-trip): after hash_table_insert(ht, k, v) whose allocations
\* succeeded, whether or not it resized the table, hash_table_lookup(ht, k)
\* returns true with the value v.
C1_RoundTrip ==
  (last.op = "insert" /\ last.failed = 0) =>
    hash_table_lookup(table, heap, last.key) = Found(last.value)

\* An insert that resized the table and linked a new key, which is found.
C1_Witness ==
  /\ last.op = "insert" /\ last.failed = 0
  /\ last.resized /\ last.linked
  /\ hash_table_lookup(table, heap, last.key) = Found(last.value)

\* C2 (update): an insert of k that directly follows a successful insert of
\* k makes the lookup of k return true with the second value, and leaves the
\* size as it was before it.
C2_Update ==
  [][(JustInserted(last'.key) /\ last'.op = "insert") =>
       /\ hash_table_lookup(table', heap', last'.key) = Found(last'.value)
       /\ hash_table_size(table') = hash_table_size(table)]_vars

\* The second of two inserts of one key with different values has run: the
\* key holds the second value and the size is the one before the call.
C2_Witness ==
  /\ last.op = "insert" /\ last.follows_insert /\ ~last.linked
  /\ last.value = 2
  /\ hash_table_lookup(table, heap, last.key) = Found(2)
  /\ hash_table_size(table) = last.size_before

\* C3 (deletion): a remove of k that directly follows a successful
\* insert(k, v) returns true and stores v in its result, and afterwards the
\* lookup of k returns false.
C3_Deletion ==
  [][(JustInserted(last'.key) /\ last'.op = "remove") =>
       /\ last'.ret
       /\ last'.result = last.value
       /\ ~hash_table_lookup(table', heap', last'.key).found]_vars

\* A remove directly after the insert of its key returned true, and the key
\* is gone while another key stays.
C3_Witness ==
  /\ last.op = "remove" /\ last.follows_insert /\ last.ret
  /\ last.result \in Values
  /\ ~Present(last.key)
  /\ hash_table_size(table) = 1

\* C4 (size invariant): in every state the size field is the number of
\* entries linked in all bucket chains, which is the number of keys a lookup
\* finds (inserted and not removed since).
C4_SizeInvariant ==
  Usable =>
    /\ hash_table_size(table) = LinkedEntries(table, heap)
    /\ hash_table_size(table) = Cardinality({k \in IntKeys : Present(k)})

\* Two inserts, one of which resized the table, and one remove: size 1.
C4_Witness ==
  /\ last.op = "remove" /\ last.ret /\ last.size_before = 2
  /\ table.no_buckets # U64FromNat(17)
  /\ hash_table_size(table) = 1
  /\ LinkedEntries(table, heap) = 1

\* C5 (resize preserves membership): an insert that resizes the table leaves
\* every other key's lookup (found, value) as it was and changes the size
\* only by the entry it links; the resize by itself leaves the size and every
\* key's lookup unchanged.
C5_ResizePreserves ==
  [][(last'.op = "insert" /\ last'.resized) =>
       /\ \A k \in IntKeys \ {last'.key} :
            hash_table_lookup(table', heap', k) = hash_table_lookup(table, heap, k)
       /\ hash_table_size(table')
            = hash_table_size(table) + (IF last'.linked THEN 1 ELSE 0)
       /\ hash_table_resize(table, heap, TRUE).resized
       /\ hash_table_size(hash_table_resize(table, heap, TRUE).t)
            = hash_table_size(table)
       /\ \A k \in IntKeys :
            hash_table_lookup(hash_table_resize(table, heap, TRUE).t,
                              hash_table_resize(table, heap, TRUE).h, k)
              = hash_table_lookup(table, heap, k)]_vars

\* An insert resized a table of two entries that shared a chain of the old
\* array and share one of the new array; both are still found.
C5_Witness ==
  /\ last.op = "insert" /\ last.resized /\ last.size_before = 2
  /\ table.no_buckets = U64FromNat(31)
  /\ Present(14) /\ Present(541)
  /\ BucketOf(table, 14) = BucketOf(table, 541)

\* C6 (resize ceiling): an insert into a table of 16381 buckets never
\* resizes it and leaves the bucket count at 16381, also when the load factor
\* is reached; if the key is new and the entry is allocated, the entry is
\* linked and the size grows by one; the key inserted is found with its
\* value and every other key's lookup is unchanged.
C6_ResizeCeiling ==
  [][(table.no_buckets = U64FromNat(16381) /\ last'.op = "insert") =>
       /\ ~last'.resized
       /\ table'.no_buckets = U64FromNat(16381)
       /\ (~Present(last'.key) /\ last'.failed = 0) =>
            (last'.linked /\ hash_table_size(table') = hash_table_size(table) + 1)
       /\ last'.failed = 0 =>
            hash_table_lookup(table', heap', last'.key) = Found(last'.value)
       /\ \A k \in IntKeys \ {last'.key} :
            hash_table_lookup(table', heap', k) = hash_table_lookup(table, heap, k)]_vars

\* A new key was linked into the 16381-bucket table with the load factor
\* reached and no resize.
C6_Witness ==
  /\ table.no_buckets = U64FromNat(16381)
  /\ last.op = "insert" /\ last.reached /\ ~last.resized /\ last.linked
  /\ hash_table_size(table) = 2
  /\ Present(last.key)

\* C7 (concrete resize timing, as the code runs it): on the default table
\* (17 buckets, load factor 0.75) with keys 0, 1, 2, ... inserted in order
\* with value = key, the insert of key 13 is the one that resizes the table,
\* to 31 buckets (13 / 17 >= 0.75); after the insert of 16 the size is 17 and
\* the bucket count 31; the insert of 17 resizes nothing (17 / 31 < 0.75),
\* and after it lookup(17) returns (true, 17) and every key of 0..16 is found
\* with its value.
C7_ResizeTiming ==
  /\ (last.op = "insert" /\ last.key <= 17) => (last.resized <=> last.key = 13)
  /\ (last.op = "insert" /\ last.key = 13) =>
       (last.size_before = 13 /\ table.no_buckets = U64FromNat(31))
  /\ (last.op = "insert" /\ last.key = 16) =>
       (hash_table_size(table) = 17 /\ table.no_buckets = U64FromNat(31))
  /\ (last.op = "insert" /\ last.key = 17) =>
       /\ table.no_buckets = U64FromNat(31)
       /\ hash_table_size(table) = 18
       /\ \A k \in 0..17 : hash_table_lookup(table, heap, k) = Found(k)

\* The insert of key 17 has run on the table the insert of 13 resized.
C7_Witness ==
  /\ last.op = "insert" /\ last.key = 17 /\ ~last.resized
  /\ hash_table_size(table) = 18
  /\ table.no_buckets = U64FromNat(31)

\* C7 as the specification states it: after the inserts of 0..16 the size is
\* 17 with the bucket count still 17, and the insert of 17 is the one that
\* resizes the table to 31 buckets, after which 0..17 are found.
C7_AsStated ==
  /\ (last.op = "insert" /\ last.key = 16) =>
       (hash_table_size(table) = 17 /\ table.no_buckets = U64FromNat(17))
  /\ (last.op = "insert" /\ last.key = 17) =>
       /\ last.resized
       /\ table.no_buckets = U64FromNat(31)
       /\ \A k \in 0..17 : hash_table_lookup(table, heap, k) = Found(k)

\* Whether a size_t value is one of the 11 primes of the library.
IsLibraryPrime(u) == \E i \in 1..PRIMES_SIZE : u = U64FromNat(primes[i])

\* C8 (creation rejects invalid capacity): for every bucket count of the
\* size_t range that is not one of the 11 primes, hash_table_create_dynamic
\* returns NULL and calls no calloc.
C8_RejectsInvalidCapacity ==
  (last.op = "create" /\ ~IsLibraryPrime(last.arg_buckets)) =>
    (~last.ret /\ ht = NULL /\ last.callocs = 0)

\* A table was created with 2^32 + 17 buckets, which is no prime of the
\* library.
C8_Witness ==
  /\ last.op = "create" /\ last.ret /\ ht # NULL
  /\ ~IsLibraryPrime(last.arg_buckets)
  /\ table.no_buckets = <<0, 1, 0, 17>>

\* C9 (creation rejects invalid load factor): hash_table_create_dynamic with
\* load_factor <= 0 returns NULL and calls no calloc, whatever the bucket
\* count.
C9_RejectsInvalidLoadFactor ==
  (last.op = "create" /\ last.arg_load[1] <= 0) =>
    (~last.ret /\ ht = NULL /\ last.callocs = 0 /\ heap = <<>>)

\* A creation with a prime bucket count and the load factor 0 returned NULL.
C9_Witness ==
  /\ last.op = "create" /\ last.arg_load[1] = 0
  /\ IsLibraryPrime(last.arg_buckets)
  /\ ~last.ret /\ ht = NULL /\ last.callocs = 0

\* C10 (a fresh table is empty): after a successful create with a prime
\* bucket count and a positive load factor (the default 17 / 0.75 included)
\* the size is 0, hash_table_is_empty is true, every chain is empty and
\* the lookup of every key returns false.
C10_FreshTableEmpty ==
  (last.op = "create" /\ last.ret /\ IsLibraryPrime(last.arg_buckets)) =>
    /\ table.no_buckets = last.arg_buckets
    /\ table.load_factor = last.arg_load /\ last.arg_load[1] > 0
    /\ hash_table_size(table) = 0
    /\ hash_table_is_empty(table)
    /\ \A b \in 0..(U64ToNat(table.no_buckets) - 1) :
         NextOf(Mem(table.buckets, heap), Sentinel(b)) = NULL
    /\ \A k \in IntKeys : ~hash_table_lookup(table, heap, k).found

\* The default table and the table of 16381 buckets right after creation.
C10_Witness ==
  /\ last.op = "create" /\ last.ret
  /\ last.arg_buckets \in {U64FromNat(17), U64FromNat(16381)}
  /\ last.arg_load[1] > 0
  /\ hash_table_is_empty(table)

\* C11 (removing an absent key): a remove of a key no stored entry has the
\* hash of returns false, stores nothing in its result and leaves the size,
\* the bucket count, every chain and every entry as they were; on an empty
\* table the size stays 0.
C11_RemoveAbsent ==
  [][(last'.op = "remove" /\ ~Present(last'.key)) =>
       /\ ~last'.ret /\ last'.result = 0 /\ last'.frees = 0
       /\ table' = table /\ heap' = heap
       /\ hash_table_is_empty(table) => hash_table_size(table') = 0]_vars

\* A remove of an absent key returned false on a table that holds another
\* key in the bucket of the absent one.
C11_Witness ==
  /\ last.op = "remove" /\ ~last.ret
  /\ hash_table_size(table) = 1 /\ last.size_before = 1
  /\ BucketHead(table.buckets, BucketOf(table, last.key)) # NULL

\* C12 (clear empties the table): after hash_table_clear the size is 0,
\* hash_table_is_empty is true, every chain is empty (every entry freed), the
\* lookup of every key returns false and the bucket count is what it was.
C12_ClearEmpties ==
  [][last'.op = "clear" =>
       /\ hash_table_size(table') = 0
       /\ hash_table_is_empty(table')
       /\ table'.buckets = <<>> /\ heap' = <<>>
       /\ LinkedEntries(table', heap') = 0
       /\ \A k \in IntKeys : ~hash_table_lookup(table', heap', k).found
       /\ table'.no_buckets = table.no_buckets
       /\ last'.frees = hash_table_size(table)]_vars

\* A clear emptied a resized table whose two entries shared a chain.
C12_Witness ==
  /\ last.op = "clear" /\ last.size_before = 2 /\ last.frees = 2
  /\ table.no_buckets = U64FromNat(31)
  /\ hash_table_is_empty(table) /\ heap = <<>>

\* C20 (negative keys): the default hash of a key is the key modulo 2^64, the
\* bucket index of every key, negative ones included, lies in
\* 0 .. no_buckets - 1, and after the insert of a negative key (allocations
\* succeeding) its entry is linked in the chain of that bucket and the lookup
\* returns true with the value.
C20_NegativeKeys ==
  Usable =>
    /\ \A k \in IntKeys :
         /\ BucketOf(table, k) \in 0..(U64ToNat(table.no_buckets) - 1)
         /\ k < 0 => default_hash_function(k)
                       = <<Limb - 1, Limb - 1, Limb - 1, Limb + k>>
    /\ (last.op = "insert" /\ last.key < 0 /\ last.failed = 0) =>
         /\ hash_table_lookup(table, heap, last.key) = Found(last.value)
         /\ BucketHead(table.buckets, BucketOf(table, last.key)) # NULL

\* The key -4 was inserted into a 17-bucket table, in bucket 14, and is found.
C20_Witness ==
  /\ last.op = "insert" /\ last.key = -4 /\ last.linked
  /\ table.no_buckets = U64FromNat(17)
  /\ BucketOf(table, -4) = 14
  /\ Present(-4)

\* Whether the last call returned the lists the client holds.
ListsReturned == last.op = "keys" /\ lists.held

\* C13 (positional pairing): the lists hash_table_keys and hash_table_values
\* return each hold exactly size elements, and for every position i the key
\* at i and the value at i belong to one stored entry: the lookup of that
\* key finds that value.
C13_PositionalPairing ==
  ListsReturned =>
    /\ linked_list_size(lists.keys) = hash_table_size(table)
    /\ linked_list_size(lists.values) = hash_table_size(table)
    /\ \A i \in 0..(hash_table_size(table) - 1) :
         hash_table_lookup(table, heap, linked_list_get(lists.keys, heap, i))
           = Found(linked_list_get(lists.values, heap, i))

\* The lists of a table of two entries that share a chain and hold different
\* values were returned.
C13_Witness ==
  /\ ListsReturned
  /\ ListElems(lists.keys, heap) = <<14, 31>>
  /\ ListElems(lists.values, heap) = <<2, 1>>
  /\ table.no_buckets = U64FromNat(17)

\* Whether position i comes before position j in the order of enumeration:
\* its key has the lower bucket index or, in one bucket, the lower hash.
EnumeratedBefore(t, ki, kj) ==
  \/ BucketOf(t, ki) < BucketOf(t, kj)
  \/ /\ BucketOf(t, ki) = BucketOf(t, kj)
     /\ U64Less(Hash(t.hash_function, ki), Hash(t.hash_function, kj))

\* C14 (enumeration order): the key list is in ascending bucket index and,
\* within a bucket, in ascending hash; with the default hash and keys that
\* are all non-negative and below no_buckets it is in ascending key order,
\* whatever the order of the insertions was.
C14_EnumerationOrder ==
  ListsReturned =>
    /\ \A i, j \in DOMAIN lists.keys :
         i < j => EnumeratedBefore(table, linked_list_get(lists.keys, heap, i - 1),
                                   linked_list_get(lists.keys, heap, j - 1))
    /\ (/\ table.hash_function = "default_hash_function"
        /\ \A i \in DOMAIN lists.keys :
             /\ linked_list_get(lists.keys, heap, i - 1) >= 0
             /\ linked_list_get(lists.keys, heap, i - 1) < U64ToNat(table.no_buckets))
       => \A i, j \in DOMAIN lists.keys :
            i < j => linked_list_get(lists.keys, heap, i - 1)
                       < linked_list_get(lists.keys, heap, j - 1)

\* The key list of a table into which 14 was inserted before 3 (14 has the
\* entry allocated first): 3 comes first.
C14_Witness ==
  /\ ListsReturned
  /\ ListElems(lists.keys, heap) = <<3, 14>>
  /\ 1 \in DOMAIN heap /\ heap[1].key = 14
  /\ 2 \in DOMAIN heap /\ heap[2].key = 3

\* C15 (snapshot): an insert, remove or clear after the lists were returned
\* changes neither the length of a list the client holds nor any element
\* read from it.
C15_Snapshot ==
  [][(lists.held /\ last'.op \in {"insert", "remove", "clear"}) =>
       /\ lists'.held
       /\ linked_list_size(lists'.keys) = linked_list_size(lists.keys)
       /\ linked_list_size(lists'.values) = linked_list_size(lists.values)
       /\ ListElems(lists'.keys, heap') = ListElems(lists.keys, heap)
       /\ ListElems(lists'.values, heap') = ListElems(lists.values, heap)]_vars

\* The table was cleared while the client held the lists of its two entries:
\* the lists still read as before.
C15_Witness ==
  /\ lists.held /\ last.op = "clear" /\ last.frees = 2
  /\ hash_table_is_empty(table)
  /\ ListElems(lists.keys, heap) = <<3, 14>>
  /\ ListElems(lists.values, heap) = <<1, 2>>

\* The stored pairs <<key, value>> of the table, as the lookups of the keys
\* the clients use find them.
StoredPairs(t, h) ==
  {<<k, hash_table_lookup(t, h, k).value>> :
     k \in {kk \in BulkKeys : hash_table_lookup(t, h, kk).found}}

\* C16 (all): hash_table_all(t, P, x) returns true exactly when P holds for
\* every stored pair, so it returns true on an empty table.
C16_All ==
  (last.op = "all") =>
    /\ last.ret = (\A kv \in StoredPairs(table, heap) :
                     Pred(last.pred, kv[1], kv[2], last.x))
    /\ hash_table_is_empty(table) => last.ret

\* hash_table_all with key < 14 returned false on the table holding 3 and 14
\* after calling the predicate on both pairs.
C16_Witness ==
  /\ last.op = "all" /\ last.pred = "int_key_less" /\ last.x = 14
  /\ ~last.ret /\ last.calls = 2
  /\ {kv[1] : kv \in StoredPairs(table, heap)} = {3, 14}

\* The positions of the enumeration (from 0) whose pair satisfies P.
Satisfying(t, h, P, x) ==
  {i \in 0..(hash_table_size(t) - 1) :
     Pred(P, linked_list_get(hash_table_keys(t, h), h, i),
             linked_list_get(hash_table_values(t, h), h, i), x)}

\* C17 (any): hash_table_any(t, P, x) returns true exactly when P holds for
\* at least one stored pair, so false on an empty table, and it calls P on no
\* pair after the first one that satisfies it: the number of calls is the
\* position of that pair counted from 1, or size when there is none.
C17_Any ==
  (last.op = "any") =>
    /\ last.ret = (\E kv \in StoredPairs(table, heap) :
                     Pred(last.pred, kv[1], kv[2], last.x))
    /\ hash_table_is_empty(table) => ~last.ret
    /\ last.ret => /\ last.calls - 1 \in Satisfying(table, heap, last.pred, last.x)
                   /\ \A i \in Satisfying(table, heap, last.pred, last.x) :
                        last.calls - 1 <= i
    /\ ~last.ret => last.calls = hash_table_size(table)

\* hash_table_any with key < 14 returned true on the table holding 3 and 14
\* after one call of the predicate.
C17_Witness ==
  /\ last.op = "any" /\ last.pred = "int_key_less" /\ last.x = 14
  /\ last.ret /\ last.calls = 1
  /\ {kv[1] : kv \in StoredPairs(table, heap)} = {3, 14}

\* C18 (has_key, has_value): in every state, whatever inserts, removes and
\* resizes led to it, hash_table_has_key(t, k) is true exactly when a stored
\* key satisfies the table's key_equiv against k, and hash_table_has_value
\* (t, v) exactly when a stored value satisfies its value_equiv against v.
C18_HasKeyHasValue ==
  Usable =>
    /\ \A k \in BulkKeys :
         hash_table_has_key(table, heap, k).result
           = (\E kv \in StoredPairs(table, heap) :
                Pred(table.key_equiv, kv[1], kv[2], k))
    /\ \A v \in Values :
         hash_table_has_value(table, heap, v).result
           = (\E kv \in StoredPairs(table, heap) :
                Pred(table.value_equiv, kv[1], kv[2], v))
    /\ last.op = "has_key" => last.ret = Present(last.key)
    /\ last.op = "has_value" =>
         last.ret = (\E kv \in StoredPairs(table, heap) : kv[2] = last.value)

\* hash_table_has_key returned true for the second key in enumeration order
\* of a table that has grown to 31 buckets and lost an entry since.
C18_Witness ==
  /\ last.op = "has_key" /\ last.ret /\ last.calls = 2
  /\ table.no_buckets = U64FromNat(31)
  /\ hash_table_size(table) = 2
  /\ Cardinality({k \in BulkKeys : ~hash_table_has_key(table, heap, k).result}) = 1
  /\ \E v \in Values : ~hash_table_has_value(table, heap, v).result

\* Whether the step is a call of hash_table_apply_to_all, returning or not.
ApplyStep == last'.op = "apply" \/ (last'.op = "crash" /\ last'.died_in = "apply")

\* C19 (apply_to_all): for any distribution of the entries over buckets and
\* chains, hash_table_apply_to_all(t, f, x) returns after calling f exactly
\* once per stored entry, with that entry's key and a reference to that
\* entry's value; afterwards every value is the transformed one, and the
\* keys, the size and the chains are as before.
C19_ApplyToAll ==
  [][ApplyStep =>
       /\ last'.op = "apply"
       /\ Len(last'.applied) = hash_table_size(table)
       /\ \A n \in DOMAIN heap :
            Cardinality({i \in DOMAIN last'.applied :
                           last'.applied[i] = <<heap[n].key, n>>}) = 1
       /\ table' = table
       /\ DOMAIN heap' = DOMAIN heap
       /\ \A n \in DOMAIN heap :
            heap' [n] = [heap[n] EXCEPT !.value =
                           ApplyFun(last'.pred, heap[n].key, @, last'.x)]]_vars

\* hash_table_apply_to_all was called on a table whose only entry is in a
\* bucket other than 0, and the process died in the call.
C19_Witness ==
  /\ Crashed /\ last.died_in = "apply"
  /\ last.size_before = 1 /\ last.calls = 0

\* C21 (other keys are left alone): an insert or a remove of k, resizing or
\* not, changes the lookup result (found and value) of no key whose hash
\* differs from the hash of k, keys of k's bucket included.
C21_OtherKeysUnchanged ==
  [][(Usable /\ last'.op \in {"insert", "remove"}) =>
       \A k \in IntKeys :
         Hash(table.hash_function, k) # Hash(table.hash_function, last'.key) =>
           hash_table_lookup(table', heap', k) = hash_table_lookup(table, heap, k)]_vars

\* An insert of 14 resized the table and linked 14 in front of 541 in the
\* bucket they share; 541, inserted before, is still found.
C21_Witness ==
  /\ last.op = "insert" /\ last.key = 14 /\ last.resized /\ last.linked
  /\ Present(541)
  /\ BucketOf(table, 541) = BucketOf(table, 14)
  /\ heap[BucketHead(table.buckets, BucketOf(table, 14))].key = 14

\* The entries of the chain from cursor on, in order; fuel bounds the walk.
RECURSIVE ChainFrom(_, _, _)
ChainFrom(h, cursor, fuel) ==
  IF cursor = NULL \/ fuel = 0 THEN <<>>
  ELSE <<cursor>> \o ChainFrom(h, h[cursor].next, fuel - 1)

\* Whether the walk from cursor reaches a null link within fuel entries.
RECURSIVE ChainEnds(_, _, _)
ChainEnds(h, cursor, fuel) ==
  IF cursor = NULL THEN TRUE
  ELSE IF fuel = 0 THEN FALSE
  ELSE ChainEnds(h, h[cursor].next, fuel - 1)

\* The chain of bucket b.
ChainOf(t, h, b) == ChainFrom(h, BucketHead(t.buckets, b), Cardinality(DOMAIN h) + 1)

\* C22 (chain order): in every state each chain is in strictly ascending
\* order of the hash of its keys as unsigned long, so no two entries of a
\* chain have the same hash.
C22_ChainOrder ==
  Usable =>
    \A b \in DOMAIN table.buckets :
      \A i, j \in DOMAIN ChainOf(table, heap, b) :
        i < j => U64Less(Hash(table.hash_function, heap[ChainOf(table, heap, b)[i]].key),
                         Hash(table.hash_function, heap[ChainOf(table, heap, b)[j]].key))

\* An insert that updated a key has rehashed the chain 14, 541 into 31
\* buckets: the two are in one chain again, 14 first.
C22_Witness ==
  /\ last.op = "insert" /\ last.resized /\ ~last.linked
  /\ table.no_buckets = U64FromNat(31)
  /\ hash_table_size(table) = 2
  /\ \E b \in DOMAIN table.buckets :
       /\ Len(ChainOf(table, heap, b)) = 2
       /\ heap[ChainOf(table, heap, b)[1]].key = 14
       /\ heap[ChainOf(table, heap, b)[2]].key = 541

\* C23 (bucket placement): in every state every entry is linked in exactly
\* one chain, once, and that chain is the one of bucket hash(key) mod
\* no_buckets for the current no_buckets; every chain ends in a null link.
C23_BucketPlacement ==
  Usable =>
    /\ \A b \in DOMAIN table.buckets :
         /\ b \in 0..(U64ToNat(table.no_buckets) - 1)
         /\ ChainEnds(heap, BucketHead(table.buckets, b), Cardinality(DOMAIN heap))
         /\ \A i \in DOMAIN ChainOf(table, heap, b) :
              BucketOf(table, heap[ChainOf(table, heap, b)[i]].key) = b
    /\ \A n \in DOMAIN heap :
         Cardinality({<<b, i>> \in (DOMAIN table.buckets) \X (1..(Cardinality(DOMAIN heap) + 1)) :
                        /\ i \in DOMAIN ChainOf(table, heap, b)
                        /\ ChainOf(table, heap, b)[i] = n}) = 1

\* Right after a resize to 31 buckets the entries of the old chain 14, -4 of
\* bucket 14 are in two buckets, 14 and 12.
C23_Witness ==
  /\ last.op = "insert" /\ last.resized
  /\ table.no_buckets = U64FromNat(31)
  /\ Present(14) /\ Present(-4)
  /\ BucketOf(table, 14) = 14 /\ BucketOf(table, -4) = 12
  /\ DOMAIN table.buckets = {12, 14}

\* Whether b is the prime that follows a in the library.
NextLibraryPrime(a, b) ==
  \E i \in 1..(PRIMES_SIZE - 1) :
    a = U64FromNat(primes[i]) /\ b = U64FromNat(primes[i + 1])

\* C24 (bucket-count transitions): the bucket count of a table is always one
\* of the primes of the library, and every operation on a table leaves
\* no_buckets unchanged or, only inside insert, sets it to the prime that
\* follows it in the library: it never decreases and grows by at most one
\* step per insert.
C24_BucketCountTransitions ==
  [][/\ ht' # NULL => IsLibraryPrime(table'.no_buckets)
     /\ (ht # NULL /\ ht' # NULL) =>
          \/ table'.no_buckets = table.no_buckets
          \/ /\ last'.op = "insert"
             /\ NextLibraryPrime(table.no_buckets, table'.no_buckets)]_vars

\* A table exists whose bucket count is no prime of the library.
C24_Witness ==
  /\ ht # NULL
  /\ ~IsLibraryPrime(table.no_buckets)
  /\ table.no_buckets[2] = 1

\* Whether an insert into t resizes it: the load factor is reached with the
\* size on entry, the library has a prime after no_buckets, and the calloc of
\* the new array succeeds.
ShouldResize(t, resize_ok) ==
  /\ t.size * t.load_factor[2] >= t.load_factor[1] * U64ToNat(t.no_buckets)
  /\ \E i \in 1..(PRIMES_SIZE - 1) : t.no_buckets = U64FromNat(primes[i])
  /\ resize_ok

\* C25 (resize trigger): an insert resizes the table exactly when, with the
\* size on entry, size / no_buckets >= load_factor, a larger prime exists and
\* the new array can be allocated, whether its key is new or present; then
\* no_buckets becomes the next prime, and in every other case the insert
\* leaves no_buckets unchanged.
C25_ResizeTrigger ==
  [][(Usable /\ last'.op = "insert") =>
       /\ last'.resized = ShouldResize(table, last'.resize_ok)
       /\ ShouldResize(table, last'.resize_ok) =>
            NextLibraryPrime(table.no_buckets, table'.no_buckets)
       /\ ~ShouldResize(table, last'.resize_ok) =>
            table'.no_buckets = table.no_buckets]_vars

\* An insert of a key that was present resized a table of 17 buckets holding
\* two entries at load factor 1/16, and linked nothing.
C25_Witness ==
  /\ last.op = "insert" /\ last.resized /\ ~last.linked /\ last.failed = 0
  /\ last.size_before = 2
  /\ table.load_factor = <<1, 16>>
  /\ table.no_buckets = U64FromNat(31)

\* C26 (resize allocation failure is recoverable): when the calloc of the new
\* array fails, hash_table_resize returns the table as it was (bucket array,
\* no_buckets, chains, size), and the insert completes against it: no_buckets
\* stays, the other keys are found as before, and when the entry needed
\* is allocated the key is found with its value.
C26_ResizeFailureRecoverable ==
  [][(/\ Usable /\ last'.op = "insert" /\ ~last'.resize_ok
      /\ ShouldResize(table, TRUE)) =>
       /\ hash_table_resize(table, heap, FALSE).t = table
       /\ hash_table_resize(table, heap, FALSE).h = heap
       /\ ~last'.resized
       /\ table'.no_buckets = table.no_buckets
       /\ hash_table_size(table') =
            hash_table_size(table) + (IF last'.linked THEN 1 ELSE 0)
       /\ (Present(last'.key) \/ last'.entry_ok) =>
            hash_table_lookup(table', heap', last'.key) = Found(last'.value)
       /\ \A k \in IntKeys \ {last'.key} :
            hash_table_lookup(table', heap', k) = hash_table_lookup(table, heap, k)
       /\ \A n \in DOMAIN heap :
            /\ n \in DOMAIN heap'
            /\ heap'[n].key = heap[n].key
            /\ heap[n].key # last'.key => heap'[n].value = heap[n].value
       /\ ~last'.linked => (table' = table /\ DOMAIN heap' = DOMAIN heap)]_vars

\* An insert whose resize could not allocate the new array linked a new key
\* into the table of 17 buckets, next to the entry it held.
C26_Witness ==
  /\ last.op = "insert" /\ ~last.resize_ok /\ last.reached /\ ~last.resized
  /\ last.failed = 1 /\ last.linked
  /\ table.no_buckets = U64FromNat(17)
  /\ hash_table_size(table) = 2
  /\ Present(last.key)

\* Whether the step is an insert of a key that is not in the table whose
\* calloc of the new entry fails.
EntryAllocFails == Usable /\ last'.op = "insert" /\ ~Present(last'.key) /\ ~last'.entry_ok

\* C27 (entry allocation failure): when the calloc of the new entry fails,
\* the size and every stored key and value are as before the call and no
\* lookup changes, the key's included (not found); no_buckets, the bucket
\* array and the chains are as before as well unless the load factor was
\* reached on entry, in which case the table was resized to the next prime
\* and rehashed before the allocation was tried.
C27_EntryAllocFailure ==
  [][EntryAllocFails =>
       /\ hash_table_size(table') = hash_table_size(table)
       /\ ~hash_table_lookup(table', heap', last'.key).found
       /\ \A k \in IntKeys :
            hash_table_lookup(table', heap', k) = hash_table_lookup(table, heap, k)
       /\ DOMAIN heap' = DOMAIN heap
       /\ \A n \in DOMAIN heap :
            heap'[n].key = heap[n].key /\ heap'[n].value = heap[n].value
       /\ ~ShouldResize(table, last'.resize_ok) => (table' = table /\ heap' = heap)
       /\ ShouldResize(table, last'.resize_ok) =>
            NextLibraryPrime(table.no_buckets, table'.no_buckets)]_vars

\* An insert resized the table to 31 buckets and then failed to allocate its
\* entry: the key is not found and the size is the one before.
C27_Witness ==
  /\ last.op = "insert" /\ ~last.entry_ok /\ last.resized /\ ~last.linked
  /\ last.failed = 1
  /\ ~Present(last.key)
  /\ hash_table_size(table) = last.size_before
  /\ table.no_buckets = U64FromNat(31)

\* C27 as the specification states it: after an insert whose entry
\* allocation failed the size, no_buckets, the bucket array and every chain
\* are as before the call, and the key is not found.
C27_AsStated ==
  [][EntryAllocFails =>
       /\ table' = table
       /\ heap' = heap
       /\ ~hash_table_lookup(table', heap', last'.key).found]_vars

\* Whether the step is an insert of a key k2 right after an insert that
\* linked a new entry for another key k1 that has the same hash.
CollidingInsert ==
  /\ Usable /\ last.op = "insert" /\ last.failed = 0 /\ last.linked
  /\ last'.op = "insert" /\ last'.key # last.key
  /\ Hash(table.hash_function, last'.key) = Hash(table.hash_function, last.key)

\* The entries whose key has the hash of key.
EntriesWithHash(t, h, key) ==
  {n \in DOMAIN h : Hash(t.hash_function, h[n].key) = Hash(t.hash_function, key)}

\* C28 (hash-only matching): when insert(k2, v2) follows the insert(k1, v1)
\* that stored k1 and the distinct keys k1, k2 have the same hash, the
\* second insert adds no entry: one entry has that hash, its stored key is k1 and its value v2, and
\* the size is the one after the first insert; the lookup and the remove of
\* k1 and of k2 find and take out that entry, although the table's key_equiv
\* (pointer equality) tells the two keys apart.
C28_HashOnlyMatching ==
  [][CollidingInsert =>
       /\ ~last'.linked
       /\ hash_table_size(table') = hash_table_size(table)
       /\ hash_table_size(table') = last.size_before + 1
       /\ Cardinality(EntriesWithHash(table', heap', last'.key)) = 1
       /\ \A n \in EntriesWithHash(table', heap', last'.key) :
            /\ heap'[n].key = last.key
            /\ heap'[n].value = last'.value
            /\ ~Pred(table'.key_equiv, heap'[n].key, heap'[n].value, last'.key)
            /\ \A k \in {last.key, last'.key} :
                 /\ hash_table_lookup(table', heap', k) = Found(last'.value)
                 /\ hash_table_remove(table', heap', k).ret
                 /\ hash_table_remove(table', heap', k).value = last'.value
                 /\ DOMAIN hash_table_remove(table', heap', k).h = DOMAIN heap' \ {n}]_vars

\* "BB" was inserted with value 2 into a table that held "Aa": the only entry
\* has the key "Aa" and the value 2, and both keys are found.
C28_Witness ==
  /\ last.op = "insert" /\ last.key = 3 /\ last.value = 2 /\ ~last.linked
  /\ table.hash_function = "string_knr_hash"
  /\ hash_table_size(table) = 1
  /\ heap = <<[key |-> 2, value |-> 2, next |-> NULL]>>
  /\ Present(2) /\ Present(3)

\* The calls that read the table.
ReadOps == {"lookup", "size", "is_empty", "has_key", "has_value", "all", "any", "keys"}

\* C29 (reads are pure): lookup, size, is_empty, has_key, has_value, all, any,
\* keys and values leave the table as it was (size, no_buckets, bucket array,
\* chains, stored keys and values), and the bucket count of a table changes
\* in no call but an insert.
C29_ReadsArePure ==
  [][/\ last'.op \in ReadOps => (ht' = ht /\ table' = table /\ heap' = heap)
     /\ (ht # NULL /\ ht' # NULL /\ table'.no_buckets # table.no_buckets) =>
          (last'.op = "insert" /\ last'.resized)]_vars

\* The key list and the value list were taken from a table of 17 buckets that
\* has reached its load factor with two entries: it still has 17 buckets.
C29_Witness ==
  /\ last.op = "keys" /\ lists.held
  /\ linked_list_size(lists.keys) = 2
  /\ LoadReached(table)
  /\ table.no_buckets = U64FromNat(17)
  /\ hash_table_size(table) = 2

\* C30 (membership tests agree under defaults): on a table with the default
\* hash and the default key equality, in every state that inserts, updates,
\* removes, clears and resizes lead to, hash_table_has_key(t, k) is true
\* exactly when hash_table_lookup(t, k) finds k, for the keys stored at some
\* time and for keys never stored (negative ones included).
C30_HasKeyAgreesWithLookup ==
  (/\ Usable
   /\ table.hash_function = "default_hash_function"
   /\ table.key_equiv = "default_key_equiv") =>
    \A k \in BulkKeys \cup IntKeys \cup {0, 17} :
      hash_table_has_key(table, heap, k).result = hash_table_lookup(table, heap, k).found

\* hash_table_has_key returned false, after two calls of the predicate, for a
\* key that a table grown to 31 buckets does not hold (any more).
C30_Witness ==
  /\ last.op = "has_key" /\ ~last.ret /\ last.calls = 2
  /\ ~hash_table_lookup(table, heap, last.key).found
  /\ table.no_buckets = U64FromNat(31)
  /\ \E k \in BulkKeys : /\ hash_table_has_key(table, heap, k).result
                          /\ hash_table_lookup(table, heap, k).found

\* C31 (the array of value references stays in bounds): in every state of a
\* table, no store of hash_table_values_arr goes to a slot index (bucket
\* index plus position in the chain) that is not below size, and every slot
\* 0 .. size-1 of the array it returns holds the reference to the value of
\* an entry of the table, none is left null.
C31_ValuesArrInBounds ==
  Usable =>
    /\ ~hash_table_values_arr(table, heap).oob
    /\ \A i \in 0..(hash_table_size(table) - 1) :
         /\ hash_table_values_arr(table, heap).arr[i] # NULL
         /\ hash_table_values_arr(table, heap).arr[i] \in DOMAIN heap

\* A table of 17 buckets holds one entry, in bucket 14: the array built for
\* it has one slot, the store went to slot 14 and slot 0 is null.
C31_Witness ==
  /\ Usable
  /\ table.no_buckets = U64FromNat(17)
  /\ hash_table_size(table) = 1
  /\ DOMAIN table.buckets = {14}
  /\ hash_table_values_arr(table, heap).oob
  /\ hash_table_values_arr(table, heap).arr[0] = NULL

\* C34 (rehash relinks, never copies): in every insert that resized, the
\* resize it ran on the table returned the same set of entry nodes, none
\* allocated and none freed, each with the key and the value it had, and of
\* the table only the bucket array and no_buckets changed; after the insert
\* every node the table had is still allocated with its key, and the only
\* node that can be new is the entry the insert itself linked.
C34_RehashRelinks ==
  [][(Usable /\ last'.op = "insert" /\ last'.resized) =>
       /\ \A r \in {hash_table_resize(table, heap, TRUE)} :
            /\ r.resized
            /\ DOMAIN r.h = DOMAIN heap
            /\ \A n \in DOMAIN heap :
                 /\ r.h[n].key = heap[n].key
                 /\ r.h[n].value = heap[n].value
            /\ LinkedEntries(r.t, r.h) = Cardinality(DOMAIN heap)
            /\ r.t = [table EXCEPT !.buckets = r.t.buckets,
                                   !.no_buckets = r.t.no_buckets]
       /\ DOMAIN heap \subseteq DOMAIN heap'
       /\ \A n \in DOMAIN heap : heap'[n].key = heap[n].key
       /\ Cardinality(DOMAIN heap' \ DOMAIN heap) = (IF last'.linked THEN 1 ELSE 0)]_vars

\* An insert whose entry could not be allocated resized a table of 17 buckets
\* holding two entries: the two nodes are the table's after the rehash, in
\* the array of 31 buckets.
C34_Witness ==
  /\ Usable
  /\ last.op = "insert" /\ last.resized /\ ~last.linked /\ last.failed = 1
  /\ last.size_before = 2
  /\ table.no_buckets = U64FromNat(31)
  /\ DOMAIN heap = {1, 2}
  /\ LinkedEntries(table, heap) = 2

\* The number of allocated blocks: the entry nodes and, while a table
\* exists, its struct and its bucket array.
LiveBlocks(p, h) == Cardinality(DOMAIN h) + (IF p # NULL THEN 2 ELSE 0)

\* No link, of a sentinel or of an entry, points at a freed node.
NoDanglingLink(t, h) ==
  /\ \A b \in DOMAIN t.buckets : t.buckets[b] \in DOMAIN h
  /\ \A n \in DOMAIN h : h[n].next \in DOMAIN h \cup {NULL}

\* C32 (no leak, no double free, no dangling link): after every call that
\* returns, no link points at a freed node and the allocated entry nodes
\* are exactly those linked in the chains, so a node is freed once, while it
\* is linked, and is in no chain afterwards; the number of allocated blocks
\* changes by the callocs that succeeded minus the frees made; an insert
\* frees no node and one bucket array exactly when it resized, and
\* allocates at most the entry it links; a remove frees the one node of a
\* key that was present and nothing else; a clear frees every node; a
\* destroy frees every node, the bucket array and the table, and leaves
\* nothing allocated; no other call allocates or frees a node.
C32_NoLeakNoDoubleFree ==
  [][(last'.op # "crash") =>
       /\ NoDanglingLink(table', heap')
       /\ UNION {{ChainOf(table', heap', b)[i] :
                    i \in DOMAIN ChainOf(table', heap', b)} :
                   b \in DOMAIN table'.buckets} = DOMAIN heap'
       /\ LiveBlocks(ht', heap') =
            LiveBlocks(ht, heap) + last'.callocs - last'.failed - last'.frees
       /\ (last'.op = "insert") =>
            /\ DOMAIN heap \subseteq DOMAIN heap'
            /\ Cardinality(DOMAIN heap' \ DOMAIN heap) =
                 (IF last'.linked THEN 1 ELSE 0)
            /\ last'.frees = (IF last'.resized THEN 1 ELSE 0)
       /\ (last'.op = "remove") =>
            /\ DOMAIN heap' \subseteq DOMAIN heap
            /\ last'.frees = (IF last'.ret THEN 1 ELSE 0)
            /\ Cardinality(DOMAIN heap \ DOMAIN heap') = last'.frees
            /\ \A n \in DOMAIN heap \ DOMAIN heap' :
                 Hash(table.hash_function, heap[n].key) =
                   Hash(table.hash_function, last'.key)
       /\ (last'.op = "clear") =>
            /\ DOMAIN heap' = {}
            /\ last'.frees = Cardinality(DOMAIN heap)
            /\ ht' = ht
       /\ (last'.op = "destroy") =>
            /\ DOMAIN heap' = {}
            /\ ht' = NULL
            /\ last'.frees = Cardinality(DOMAIN heap) + 2
       /\ (last'.op \notin {"insert", "remove", "clear", "destroy"}) =>
            DOMAIN heap' = DOMAIN heap]_vars

\* A table holding two entries was destroyed: four blocks were freed, the
\* two nodes, the bucket array and the table, and nothing is allocated.
C32_Witness ==
  /\ last.op = "destroy" /\ last.size_before = 2 /\ last.frees = 4
  /\ ht = NULL
  /\ DOMAIN heap = {}
  /\ LiveBlocks(ht, heap) = 0

\* No thread is inside a call.
Quiescent == \A t \in Threads : ~Active(t)

\* Thread t returned from an insert that linked or updated its entry, no
\* thread removes that key, and a lookup does not find the key.
InsertLost(t) ==
  /\ thread[t].op = "insert" /\ thread[t].pc = "done" /\ thread[t].stored
  /\ \A u \in Threads :
       thread[u].op = "remove" =>
         Hash(table.hash_function, thread[u].key) #
           Hash(table.hash_function, thread[t].key)
  /\ ~Present(thread[t].key)

\* Thread t1 returned from a call of op1 and thread t2 from a call of op2,
\* both successful and on keys of different hashes; the chains hold no freed
\* entry, and yet size is not the number of linked entries and the key of
\* t1's insert is not found.
RaceLeft(op1, op2) ==
  /\ Usable /\ Quiescent
  /\ thread["t1"].op = op1 /\ thread["t1"].pc = "done"
  /\ thread["t2"].op = op2 /\ thread["t2"].pc = "done"
  /\ \A t \in Threads : IF thread[t].op = "insert" THEN thread[t].stored
                         ELSE thread[t].ret
  /\ Hash(table.hash_function, thread["t1"].key) #
       Hash(table.hash_function, thread["t2"].key)
  /\ NoDanglingLink(table, heap)
  /\ table.size # LinkedEntries(table, heap)
  /\ InsertLost("t1")

\* C33 (not safe for concurrent access): with no lock, the interleaved steps
\* of two inserts, or of an insert and a remove, by two threads reach states
\* in which size is not the number of linked entries and the key of a
\* completed insert is not found; such a state is reached only through
\* interleaving: whenever no thread is inside a call and no call ran while
\* another was in progress, no link points at a freed entry, size is the
\* number of linked entries and every inserted key is found.
C33_OnlyRacesBreakInvariants ==
  (Usable /\ Quiescent /\ \A t \in Threads : ~thread[t].raced) =>
    /\ NoDanglingLink(table, heap)
    /\ table.size = LinkedEntries(table, heap)
    /\ \A t \in Threads : ~InsertLost(t)

\* Both threads returned from their inserts of 14 and of 31, each having
\* linked its entry: one entry is linked, size is not the number of linked
\* entries and the key of the first thread is not found.
C33_Witness ==
  /\ RaceLeft("insert", "insert")
  /\ thread["t1"].key = 14 /\ thread["t2"].key = 31
  /\ LinkedEntries(table, heap) = 1
  /\ ~Present(14) /\ Present(31)

====
